---- MODULE Spec2Model ----
(***************************************************************************)
(* A model of smtcomp/defs.py: the taxonomy of tracks, divisions and       *)
(* logics, the participation merger (Participation.get and                 *)
(* Participations.get) and the benchmark identity codec (Smt2File).        *)
(*                                                                         *)
(* A Python str is a sequence of one-character strings.  A member of an    *)
(* EnumAutoInt class is the string of its member name; its value (what     *)
(* str() gives and what the class call looks up) is a str.                 *)
(***************************************************************************)
EXTENDS Integers, Sequences, FiniteSets, TLC

(***************************************************************************)
(* Enumerations, in declaration order (EnumAutoInt.__ordered__).           *)
(***************************************************************************)

\* class Track(EnumAutoInt): the members, in declaration order.
TrackMembers ==
  <<
    "UnsatCore", "SingleQuery", "ProofExhibition", "ModelValidation",
    "Incremental", "Cloud", "Parallel"
  >>

Track == {TrackMembers[i] : i \in DOMAIN TrackMembers}

\* class Division(EnumAutoInt): the members, in declaration order.
DivisionMembers ==
  <<
    "Arith", "Bitvec", "Equality", "Equality_LinearArith",
    "Equality_MachineArith", "Equality_NonLinearArith", "FPArith",
    "QF_ADT_BitVec", "QF_ADT_LinArith", "QF_Bitvec", "QF_Datatypes",
    "QF_Equality", "QF_Equality_Bitvec", "QF_Equality_Bitvec_Arith",
    "QF_Equality_LinearArith", "QF_Equality_NonLinearArith", "QF_FPArith",
    "QF_LinearIntArith", "QF_LinearRealArith", "QF_NonLinearIntArith",
    "QF_NonLinearRealArith", "QF_Strings"
  >>

Division == {DivisionMembers[i] : i \in DOMAIN DivisionMembers}

\* class Logic(EnumAutoInt): the members, in declaration order.
LogicMembers ==
  <<
    "ABV", "ABVFP", "ABVFPLRA", "ALIA", "ANIA", "AUFBV", "AUFBVDTLIA",
    "AUFBVDTNIA", "AUFBVDTNIRA", "AUFBVFP", "AUFDTLIA", "AUFDTLIRA",
    "AUFDTNIRA", "AUFFPDTNIRA", "AUFLIA", "AUFLIRA", "AUFNIA", "AUFNIRA",
    "BV", "BVFP", "BVFPLRA", "FP", "FPLRA", "LIA", "LRA", "NIA", "NRA",
    "QF_ABV", "QF_ABVFP", "QF_ABVFPLRA", "QF_ALIA", "QF_ANIA", "QF_AUFBV",
    "QF_AUFBVFP", "QF_AUFBVLIA", "QF_AUFBVNIA", "QF_AUFLIA", "QF_AUFNIA",
    "QF_AX", "QF_BV", "QF_BVFP", "QF_BVFPLRA", "QF_BVLRA", "QF_DT", "QF_FP",
    "QF_FPLRA", "QF_IDL", "QF_LIA", "QF_LIRA", "QF_LRA", "QF_NIA", "QF_NIRA",
    "QF_NRA", "QF_RDL", "QF_S", "QF_SLIA", "QF_SNIA", "QF_UF", "QF_UFBV",
    "QF_UFBVDT", "QF_UFBVLIA", "QF_UFDT", "QF_UFDTLIA", "QF_UFDTLIRA",
    "QF_UFDTNIA", "QF_UFFP", "QF_UFFPDTNIRA", "QF_UFIDL", "QF_UFLIA",
    "QF_UFLRA", "QF_UFNIA", "QF_UFNRA", "UF", "UFBV", "UFBVDT", "UFBVFP",
    "UFBVLIA", "UFDT", "UFDTLIA", "UFDTLIRA", "UFDTNIA", "UFDTNIRA",
    "UFFPDTNIRA", "UFIDL", "UFLIA", "UFLRA", "UFNIA", "UFNIRA", "UFNRA"
  >>

Logic == {LogicMembers[i] : i \in DOMAIN LogicMembers}

\* The value of each Logic member: a str.
LogicValue ==
     "ABV" :> <<"A", "B", "V">>
  @@ "ABVFP" :> <<"A", "B", "V", "F", "P">>
  @@ "ABVFPLRA" :> <<"A", "B", "V", "F", "P", "L", "R", "A">>
  @@ "ALIA" :> <<"A", "L", "I", "A">>
  @@ "ANIA" :> <<"A", "N", "I", "A">>
  @@ "AUFBV" :> <<"A", "U", "F", "B", "V">>
  @@ "AUFBVDTLIA" :> <<"A", "U", "F", "B", "V", "D", "T", "L", "I", "A">>
  @@ "AUFBVDTNIA" :> <<"A", "U", "F", "B", "V", "D", "T", "N", "I", "A">>
  @@ "AUFBVDTNIRA" :> <<"A", "U", "F", "B", "V", "D", "T", "N", "I", "R", "A">>
  @@ "AUFBVFP" :> <<"A", "U", "F", "B", "V", "F", "P">>
  @@ "AUFDTLIA" :> <<"A", "U", "F", "D", "T", "L", "I", "A">>
  @@ "AUFDTLIRA" :> <<"A", "U", "F", "D", "T", "L", "I", "R", "A">>
  @@ "AUFDTNIRA" :> <<"A", "U", "F", "D", "T", "N", "I", "R", "A">>
  @@ "AUFFPDTNIRA" :> <<"A", "U", "F", "F", "P", "D", "T", "N", "I", "R", "A">>
  @@ "AUFLIA" :> <<"A", "U", "F", "L", "I", "A">>
  @@ "AUFLIRA" :> <<"A", "U", "F", "L", "I", "R", "A">>
  @@ "AUFNIA" :> <<"A", "U", "F", "N", "I", "A">>
  @@ "AUFNIRA" :> <<"A", "U", "F", "N", "I", "R", "A">>
  @@ "BV" :> <<"B", "V">>
  @@ "BVFP" :> <<"B", "V", "F", "P">>
  @@ "BVFPLRA" :> <<"B", "V", "F", "P", "L", "R", "A">>
  @@ "FP" :> <<"F", "P">>
  @@ "FPLRA" :> <<"F", "P", "L", "R", "A">>
  @@ "LIA" :> <<"L", "I", "A">>
  @@ "LRA" :> <<"L", "R", "A">>
  @@ "NIA" :> <<"N", "I", "A">>
  @@ "NRA" :> <<"N", "R", "A">>
  @@ "QF_ABV" :> <<"Q", "F", "_", "A", "B", "V">>
  @@ "QF_ABVFP" :> <<"Q", "F", "_", "A", "B", "V", "F", "P">>
  @@ "QF_ABVFPLRA" :> <<"Q", "F", "_", "A", "B", "V", "F", "P", "L", "R", "A">>
  @@ "QF_ALIA" :> <<"Q", "F", "_", "A", "L", "I", "A">>
  @@ "QF_ANIA" :> <<"Q", "F", "_", "A", "N", "I", "A">>
  @@ "QF_AUFBV" :> <<"Q", "F", "_", "A", "U", "F", "B", "V">>
  @@ "QF_AUFBVFP" :> <<"Q", "F", "_", "A", "U", "F", "B", "V", "F", "P">>
  @@ "QF_AUFBVLIA" :> <<"Q", "F", "_", "A", "U", "F", "B", "V", "L", "I", "A">>
  @@ "QF_AUFBVNIA" :> <<"Q", "F", "_", "A", "U", "F", "B", "V", "N", "I", "A">>
  @@ "QF_AUFLIA" :> <<"Q", "F", "_", "A", "U", "F", "L", "I", "A">>
  @@ "QF_AUFNIA" :> <<"Q", "F", "_", "A", "U", "F", "N", "I", "A">>
  @@ "QF_AX" :> <<"Q", "F", "_", "A", "X">>
  @@ "QF_BV" :> <<"Q", "F", "_", "B", "V">>
  @@ "QF_BVFP" :> <<"Q", "F", "_", "B", "V", "F", "P">>
  @@ "QF_BVFPLRA" :> <<"Q", "F", "_", "B", "V", "F", "P", "L", "R", "A">>
  @@ "QF_BVLRA" :> <<"Q", "F", "_", "B", "V", "L", "R", "A">>
  @@ "QF_DT" :> <<"Q", "F", "_", "D", "T">>
  @@ "QF_FP" :> <<"Q", "F", "_", "F", "P">>
  @@ "QF_FPLRA" :> <<"Q", "F", "_", "F", "P", "L", "R", "A">>
  @@ "QF_IDL" :> <<"Q", "F", "_", "I", "D", "L">>
  @@ "QF_LIA" :> <<"Q", "F", "_", "L", "I", "A">>
  @@ "QF_LIRA" :> <<"Q", "F", "_", "L", "I", "R", "A">>
  @@ "QF_LRA" :> <<"Q", "F", "_", "L", "R", "A">>
  @@ "QF_NIA" :> <<"Q", "F", "_", "N", "I", "A">>
  @@ "QF_NIRA" :> <<"Q", "F", "_", "N", "I", "R", "A">>
  @@ "QF_NRA" :> <<"Q", "F", "_", "N", "R", "A">>
  @@ "QF_RDL" :> <<"Q", "F", "_", "R", "D", "L">>
  @@ "QF_S" :> <<"Q", "F", "_", "S">>
  @@ "QF_SLIA" :> <<"Q", "F", "_", "S", "L", "I", "A">>
  @@ "QF_SNIA" :> <<"Q", "F", "_", "S", "N", "I", "A">>
  @@ "QF_UF" :> <<"Q", "F", "_", "U", "F">>
  @@ "QF_UFBV" :> <<"Q", "F", "_", "U", "F", "B", "V">>
  @@ "QF_UFBVDT" :> <<"Q", "F", "_", "U", "F", "B", "V", "D", "T">>
  @@ "QF_UFBVLIA" :> <<"Q", "F", "_", "U", "F", "B", "V", "L", "I", "A">>
  @@ "QF_UFDT" :> <<"Q", "F", "_", "U", "F", "D", "T">>
  @@ "QF_UFDTLIA" :> <<"Q", "F", "_", "U", "F", "D", "T", "L", "I", "A">>
  @@ "QF_UFDTLIRA" :> <<"Q", "F", "_", "U", "F", "D", "T", "L", "I", "R", "A">>
  @@ "QF_UFDTNIA" :> <<"Q", "F", "_", "U", "F", "D", "T", "N", "I", "A">>
  @@ "QF_UFFP" :> <<"Q", "F", "_", "U", "F", "F", "P">>
  @@ "QF_UFFPDTNIRA" :> <<"Q", "F", "_", "U", "F", "F", "P", "D", "T", "N", "I", "R", "A">>
  @@ "QF_UFIDL" :> <<"Q", "F", "_", "U", "F", "I", "D", "L">>
  @@ "QF_UFLIA" :> <<"Q", "F", "_", "U", "F", "L", "I", "A">>
  @@ "QF_UFLRA" :> <<"Q", "F", "_", "U", "F", "L", "R", "A">>
  @@ "QF_UFNIA" :> <<"Q", "F", "_", "U", "F", "N", "I", "A">>
  @@ "QF_UFNRA" :> <<"Q", "F", "_", "U", "F", "N", "R", "A">>
  @@ "UF" :> <<"U", "F">>
  @@ "UFBV" :> <<"U", "F", "B", "V">>
  @@ "UFBVDT" :> <<"U", "F", "B", "V", "D", "T">>
  @@ "UFBVFP" :> <<"U", "F", "B", "V", "F", "P">>
  @@ "UFBVLIA" :> <<"U", "F", "B", "V", "L", "I", "A">>
  @@ "UFDT" :> <<"U", "F", "D", "T">>
  @@ "UFDTLIA" :> <<"U", "F", "D", "T", "L", "I", "A">>
  @@ "UFDTLIRA" :> <<"U", "F", "D", "T", "L", "I", "R", "A">>
  @@ "UFDTNIA" :> <<"U", "F", "D", "T", "N", "I", "A">>
  @@ "UFDTNIRA" :> <<"U", "F", "D", "T", "N", "I", "R", "A">>
  @@ "UFFPDTNIRA" :> <<"U", "F", "F", "P", "D", "T", "N", "I", "R", "A">>
  @@ "UFIDL" :> <<"U", "F", "I", "D", "L">>
  @@ "UFLIA" :> <<"U", "F", "L", "I", "A">>
  @@ "UFLRA" :> <<"U", "F", "L", "R", "A">>
  @@ "UFNIA" :> <<"U", "F", "N", "I", "A">>
  @@ "UFNIRA" :> <<"U", "F", "N", "I", "R", "A">>
  @@ "UFNRA" :> <<"U", "F", "N", "R", "A">>

(***************************************************************************)
(* tracks: dict[Track, dict[Division, set[Logic]]], one definition per     *)
(* track.  A dict is a function whose DOMAIN is its set of keys.           *)
(***************************************************************************)

tracksSingleQuery ==
     "QF_Datatypes" :> {
         "QF_DT", "QF_UFDT"}
  @@ "QF_Equality" :> {
         "QF_AX", "QF_UF"}
  @@ "QF_Equality_LinearArith" :> {
         "QF_ALIA", "QF_AUFLIA", "QF_UFDTLIA", "QF_UFDTLIRA", "QF_UFIDL",
         "QF_UFLIA", "QF_UFLRA"}
  @@ "QF_Equality_NonLinearArith" :> {
         "QF_ANIA", "QF_AUFNIA", "QF_UFDTNIA", "QF_UFNIA", "QF_UFNRA"}
  @@ "QF_Equality_Bitvec" :> {
         "QF_ABV", "QF_AUFBV", "QF_UFBV", "QF_UFBVDT"}
  @@ "QF_LinearIntArith" :> {
         "QF_IDL", "QF_LIA", "QF_LIRA"}
  @@ "QF_LinearRealArith" :> {
         "QF_LRA", "QF_RDL"}
  @@ "QF_Bitvec" :> {
         "QF_BV"}
  @@ "QF_FPArith" :> {
         "QF_ABVFP", "QF_ABVFPLRA", "QF_AUFBVFP", "QF_BVFP", "QF_BVFPLRA",
         "QF_FP", "QF_FPLRA", "QF_UFFP", "QF_UFFPDTNIRA"}
  @@ "QF_NonLinearIntArith" :> {
         "QF_NIA", "QF_NIRA"}
  @@ "QF_NonLinearRealArith" :> {
         "QF_NRA"}
  @@ "QF_Strings" :> {
         "QF_S", "QF_SLIA", "QF_SNIA"}
  @@ "Equality" :> {
         "UF", "UFDT"}
  @@ "Equality_LinearArith" :> {
         "ALIA", "AUFDTLIA", "AUFDTLIRA", "AUFLIA", "AUFLIRA", "UFDTLIA",
         "UFDTLIRA", "UFIDL", "UFLIA", "UFLRA"}
  @@ "Equality_MachineArith" :> {
         "ABV", "ABVFP", "ABVFPLRA", "AUFBV", "AUFBVDTLIA", "AUFBVDTNIA",
         "AUFBVDTNIRA", "AUFBVFP", "AUFFPDTNIRA", "UFBV", "UFBVDT", "UFBVFP",
         "UFBVLIA", "UFFPDTNIRA"}
  @@ "Equality_NonLinearArith" :> {
         "ANIA", "AUFDTNIRA", "AUFNIA", "AUFNIRA", "UFDTNIA", "UFDTNIRA",
         "UFNIA"}
  @@ "Arith" :> {
         "LIA", "LRA", "NIA", "NRA"}
  @@ "Bitvec" :> {
         "BV"}
  @@ "FPArith" :> {
         "BVFP", "BVFPLRA", "FP", "FPLRA"}

tracksIncremental ==
     "QF_Equality" :> {
         "QF_UF"}
  @@ "QF_Equality_LinearArith" :> {
         "QF_ALIA", "QF_AUFLIA", "QF_UFLIA", "QF_UFLRA"}
  @@ "QF_Equality_NonLinearArith" :> {
         "QF_ANIA", "QF_UFNIA", "QF_UFNRA"}
  @@ "QF_Equality_Bitvec" :> {
         "QF_ABV", "QF_AUFBV", "QF_UFBV"}
  @@ "QF_Equality_Bitvec_Arith" :> {
         "QF_AUFBVLIA", "QF_AUFBVNIA", "QF_UFBVLIA"}
  @@ "QF_LinearIntArith" :> {
         "QF_LIA"}
  @@ "QF_LinearRealArith" :> {
         "QF_LRA"}
  @@ "QF_Bitvec" :> {
         "QF_BV"}
  @@ "QF_FPArith" :> {
         "QF_ABVFP", "QF_ABVFPLRA", "QF_BVFP", "QF_BVFPLRA", "QF_FP",
         "QF_UFFP"}
  @@ "QF_NonLinearIntArith" :> {
         "QF_NIA"}
  @@ "Equality" :> {
         "UF"}
  @@ "Equality_LinearArith" :> {
         "ALIA", "UFLRA"}
  @@ "Equality_MachineArith" :> {
         "ABVFPLRA"}
  @@ "Equality_NonLinearArith" :> {
         "ANIA", "AUFNIRA", "UFDTNIA", "UFNIA", "UFNRA"}
  @@ "Arith" :> {
         "LIA", "LRA"}
  @@ "Bitvec" :> {
         "BV"}
  @@ "FPArith" :> {
         "BVFP", "BVFPLRA"}

tracksUnsatCore ==
     "QF_Datatypes" :> {
         "QF_DT", "QF_UFDT"}
  @@ "QF_Equality" :> {
         "QF_AX", "QF_UF"}
  @@ "QF_Equality_LinearArith" :> {
         "QF_ALIA", "QF_AUFLIA", "QF_UFDTLIA", "QF_UFDTLIRA", "QF_UFIDL",
         "QF_UFLIA", "QF_UFLRA"}
  @@ "QF_Equality_NonLinearArith" :> {
         "QF_ANIA", "QF_AUFNIA", "QF_UFDTNIA", "QF_UFNIA", "QF_UFNRA"}
  @@ "QF_Equality_Bitvec" :> {
         "QF_ABV", "QF_AUFBV", "QF_UFBV", "QF_UFBVDT"}
  @@ "QF_LinearIntArith" :> {
         "QF_IDL", "QF_LIA", "QF_LIRA"}
  @@ "QF_LinearRealArith" :> {
         "QF_LRA", "QF_RDL"}
  @@ "QF_Bitvec" :> {
         "QF_BV"}
  @@ "QF_FPArith" :> {
         "QF_ABVFP", "QF_ABVFPLRA", "QF_AUFBVFP", "QF_BVFP", "QF_BVFPLRA",
         "QF_FP", "QF_FPLRA", "QF_UFFP", "QF_UFFPDTNIRA"}
  @@ "QF_NonLinearIntArith" :> {
         "QF_NIA", "QF_NIRA"}
  @@ "QF_NonLinearRealArith" :> {
         "QF_NRA"}
  @@ "QF_Strings" :> {
         "QF_S", "QF_SLIA", "QF_SNIA"}
  @@ "Equality" :> {
         "UF", "UFDT"}
  @@ "Equality_LinearArith" :> {
         "ALIA", "AUFDTLIA", "AUFDTLIRA", "AUFLIA", "AUFLIRA", "UFDTLIA",
         "UFDTLIRA", "UFIDL", "UFLIA", "UFLRA"}
  @@ "Equality_MachineArith" :> {
         "ABV", "ABVFP", "ABVFPLRA", "AUFBV", "AUFBVDTLIA", "AUFBVDTNIA",
         "AUFBVDTNIRA", "AUFBVFP", "AUFFPDTNIRA", "UFBV", "UFBVDT", "UFBVFP",
         "UFBVLIA", "UFFPDTNIRA"}
  @@ "Equality_NonLinearArith" :> {
         "ANIA", "AUFDTNIRA", "AUFNIA", "AUFNIRA", "UFDTNIA", "UFDTNIRA",
         "UFNIA"}
  @@ "Arith" :> {
         "LIA", "LRA", "NIA", "NRA"}
  @@ "Bitvec" :> {
         "BV"}
  @@ "FPArith" :> {
         "BVFP", "BVFPLRA", "FP", "FPLRA"}

tracksModelValidation ==
     "QF_Datatypes" :> {
         "QF_DT", "QF_UFDT"}
  @@ "QF_Equality" :> {
         "QF_UF"}
  @@ "QF_Equality_LinearArith" :> {
         "QF_UFIDL", "QF_UFLIA", "QF_UFLRA"}
  @@ "QF_Equality_NonLinearArith" :> {
         "QF_ANIA", "QF_AUFNIA", "QF_UFDTNIA", "QF_UFNIA", "QF_UFNRA"}
  @@ "QF_Equality_Bitvec" :> {
         "QF_UFBV"}
  @@ "QF_ADT_BitVec" :> {
         "QF_ABV", "QF_AUFBV", "QF_UFBVDT"}
  @@ "QF_ADT_LinArith" :> {
         "QF_ALIA", "QF_AUFLIA", "QF_AX", "QF_UFDTLIA", "QF_UFDTLIRA"}
  @@ "QF_LinearIntArith" :> {
         "QF_IDL", "QF_LIA", "QF_LIRA"}
  @@ "QF_LinearRealArith" :> {
         "QF_LRA", "QF_RDL"}
  @@ "QF_Bitvec" :> {
         "QF_BV"}
  @@ "QF_FPArith" :> {
         "QF_ABVFP", "QF_ABVFPLRA", "QF_AUFBVFP", "QF_BVFP", "QF_BVFPLRA",
         "QF_FP", "QF_FPLRA", "QF_UFFP", "QF_UFFPDTNIRA"}
  @@ "QF_NonLinearIntArith" :> {
         "QF_NIA", "QF_NIRA"}
  @@ "QF_NonLinearRealArith" :> {
         "QF_NRA"}

tracksProofExhibition ==
     "QF_Datatypes" :> {
         "QF_DT", "QF_UFDT"}
  @@ "QF_Equality" :> {
         "QF_AX", "QF_UF"}
  @@ "QF_Equality_LinearArith" :> {
         "QF_ALIA", "QF_AUFLIA", "QF_UFDTLIA", "QF_UFDTLIRA", "QF_UFIDL",
         "QF_UFLIA", "QF_UFLRA"}
  @@ "QF_Equality_NonLinearArith" :> {
         "QF_ANIA", "QF_AUFNIA", "QF_UFDTNIA", "QF_UFNIA", "QF_UFNRA"}
  @@ "QF_Equality_Bitvec" :> {
         "QF_ABV", "QF_AUFBV", "QF_UFBV", "QF_UFBVDT"}
  @@ "QF_LinearIntArith" :> {
         "QF_IDL", "QF_LIA", "QF_LIRA"}
  @@ "QF_LinearRealArith" :> {
         "QF_LRA", "QF_RDL"}
  @@ "QF_Bitvec" :> {
         "QF_BV"}
  @@ "QF_FPArith" :> {
         "QF_ABVFP", "QF_ABVFPLRA", "QF_AUFBVFP", "QF_BVFP", "QF_BVFPLRA",
         "QF_FP", "QF_FPLRA", "QF_UFFP", "QF_UFFPDTNIRA"}
  @@ "QF_NonLinearIntArith" :> {
         "QF_NIA", "QF_NIRA"}
  @@ "QF_NonLinearRealArith" :> {
         "QF_NRA"}
  @@ "QF_Strings" :> {
         "QF_S", "QF_SLIA", "QF_SNIA"}
  @@ "Equality" :> {
         "UF", "UFDT"}
  @@ "Equality_LinearArith" :> {
         "ALIA", "AUFDTLIA", "AUFDTLIRA", "AUFLIA", "AUFLIRA", "UFDTLIA",
         "UFDTLIRA", "UFIDL", "UFLIA", "UFLRA"}
  @@ "Equality_MachineArith" :> {
         "ABV", "ABVFP", "ABVFPLRA", "AUFBV", "AUFBVDTLIA", "AUFBVDTNIA",
         "AUFBVDTNIRA", "AUFBVFP", "AUFFPDTNIRA", "UFBV", "UFBVDT", "UFBVFP",
         "UFBVLIA", "UFFPDTNIRA"}
  @@ "Equality_NonLinearArith" :> {
         "ANIA", "AUFDTNIRA", "AUFNIA", "AUFNIRA", "UFDTNIA", "UFDTNIRA",
         "UFNIA"}
  @@ "Arith" :> {
         "LIA", "LRA", "NIA", "NRA"}
  @@ "Bitvec" :> {
         "BV"}
  @@ "FPArith" :> {
         "BVFP", "BVFPLRA", "FP", "FPLRA"}

tracksCloud ==
     "QF_Datatypes" :> {
         "QF_DT", "QF_UFDT"}
  @@ "QF_Equality" :> {
         "QF_AX", "QF_UF"}
  @@ "QF_Equality_LinearArith" :> {
         "QF_ALIA", "QF_AUFLIA", "QF_UFDTLIA", "QF_UFDTLIRA", "QF_UFIDL",
         "QF_UFLIA", "QF_UFLRA"}
  @@ "QF_Equality_NonLinearArith" :> {
         "QF_ANIA", "QF_AUFNIA", "QF_UFDTNIA", "QF_UFNIA", "QF_UFNRA"}
  @@ "QF_Equality_Bitvec" :> {
         "QF_ABV", "QF_AUFBV", "QF_UFBV", "QF_UFBVDT"}
  @@ "QF_LinearIntArith" :> {
         "QF_IDL", "QF_LIA", "QF_LIRA"}
  @@ "QF_LinearRealArith" :> {
         "QF_LRA", "QF_RDL"}
  @@ "QF_Bitvec" :> {
         "QF_BV"}
  @@ "QF_FPArith" :> {
         "QF_ABVFP", "QF_ABVFPLRA", "QF_AUFBVFP", "QF_BVFP", "QF_BVFPLRA",
         "QF_FP", "QF_FPLRA", "QF_UFFP", "QF_UFFPDTNIRA"}
  @@ "QF_NonLinearIntArith" :> {
         "QF_NIA", "QF_NIRA"}
  @@ "QF_NonLinearRealArith" :> {
         "QF_NRA"}
  @@ "QF_Strings" :> {
         "QF_S", "QF_SLIA", "QF_SNIA"}
  @@ "Equality" :> {
         "UF", "UFDT"}
  @@ "Equality_LinearArith" :> {
         "ALIA", "AUFDTLIA", "AUFDTLIRA", "AUFLIA", "AUFLIRA", "UFDTLIA",
         "UFDTLIRA", "UFIDL", "UFLIA", "UFLRA"}
  @@ "Equality_MachineArith" :> {
         "ABV", "ABVFP", "ABVFPLRA", "AUFBV", "AUFBVDTLIA", "AUFBVDTNIA",
         "AUFBVDTNIRA", "AUFBVFP", "AUFFPDTNIRA", "UFBV", "UFBVDT", "UFBVFP",
         "UFBVLIA", "UFFPDTNIRA"}
  @@ "Equality_NonLinearArith" :> {
         "ANIA", "AUFDTNIRA", "AUFNIA", "AUFNIRA", "UFDTNIA", "UFDTNIRA",
         "UFNIA"}
  @@ "Arith" :> {
         "LIA", "LRA", "NIA", "NRA"}
  @@ "Bitvec" :> {
         "BV"}
  @@ "FPArith" :> {
         "BVFP", "BVFPLRA", "FP", "FPLRA"}

tracksParallel ==
     "QF_Datatypes" :> {
         "QF_DT", "QF_UFDT"}
  @@ "QF_Equality" :> {
         "QF_AX", "QF_UF"}
  @@ "QF_Equality_LinearArith" :> {
         "QF_ALIA", "QF_AUFLIA", "QF_UFDTLIA", "QF_UFDTLIRA", "QF_UFIDL",
         "QF_UFLIA", "QF_UFLRA"}
  @@ "QF_Equality_NonLinearArith" :> {
         "QF_ANIA", "QF_AUFNIA", "QF_UFDTNIA", "QF_UFNIA", "QF_UFNRA"}
  @@ "QF_Equality_Bitvec" :> {
         "QF_ABV", "QF_AUFBV", "QF_UFBV", "QF_UFBVDT"}
  @@ "QF_LinearIntArith" :> {
         "QF_IDL", "QF_LIA", "QF_LIRA"}
  @@ "QF_LinearRealArith" :> {
         "QF_LRA", "QF_RDL"}
  @@ "QF_Bitvec" :> {
         "QF_BV"}
  @@ "QF_FPArith" :> {
         "QF_ABVFP", "QF_ABVFPLRA", "QF_AUFBVFP", "QF_BVFP", "QF_BVFPLRA",
         "QF_FP", "QF_FPLRA", "QF_UFFP", "QF_UFFPDTNIRA"}
  @@ "QF_NonLinearIntArith" :> {
         "QF_NIA", "QF_NIRA"}
  @@ "QF_NonLinearRealArith" :> {
         "QF_NRA"}
  @@ "QF_Strings" :> {
         "QF_S", "QF_SLIA", "QF_SNIA"}
  @@ "Equality" :> {
         "UF", "UFDT"}
  @@ "Equality_LinearArith" :> {
         "ALIA", "AUFDTLIA", "AUFDTLIRA", "AUFLIA", "AUFLIRA", "UFDTLIA",
         "UFDTLIRA", "UFIDL", "UFLIA", "UFLRA"}
  @@ "Equality_MachineArith" :> {
         "ABV", "ABVFP", "ABVFPLRA", "AUFBV", "AUFBVDTLIA", "AUFBVDTNIA",
         "AUFBVDTNIRA", "AUFBVFP", "AUFFPDTNIRA", "UFBV", "UFBVDT", "UFBVFP",
         "UFBVLIA", "UFFPDTNIRA"}
  @@ "Equality_NonLinearArith" :> {
         "ANIA", "AUFDTNIRA", "AUFNIA", "AUFNIRA", "UFDTNIA", "UFDTNIRA",
         "UFNIA"}
  @@ "Arith" :> {
         "LIA", "LRA", "NIA", "NRA"}
  @@ "Bitvec" :> {
         "BV"}
  @@ "FPArith" :> {
         "BVFP", "BVFPLRA", "FP", "FPLRA"}

\* A table whose Incremental track lists QF_LIA under QF_Bitvec as well as
\* under QF_LinearIntArith.
tracks_Overlap ==
     "SingleQuery" :> tracksSingleQuery
  @@ "Incremental" :>
       [tracksIncremental EXCEPT !["QF_Bitvec"] = @ \cup {"QF_LIA"}]
  @@ "UnsatCore" :> tracksUnsatCore
  @@ "ModelValidation" :> tracksModelValidation
  @@ "ProofExhibition" :> tracksProofExhibition
  @@ "Cloud" :> tracksCloud
  @@ "Parallel" :> tracksParallel

tracks ==
     "SingleQuery" :> tracksSingleQuery
  @@ "Incremental" :> tracksIncremental
  @@ "UnsatCore" :> tracksUnsatCore
  @@ "ModelValidation" :> tracksModelValidation
  @@ "ProofExhibition" :> tracksProofExhibition
  @@ "Cloud" :> tracksCloud
  @@ "Parallel" :> tracksParallel
(***************************************************************************)
(* Python values.  None is the empty tuple and a present value v is <<v>>, *)
(* so that an optional value is always a sequence.  A call that may raise  *)
(* returns [err, val]: err is "none" and val is <<result>>, or err names   *)
(* the exception and val is <<>>.                                          *)
(***************************************************************************)
None == <<>>

Some(v) == <<v>>

Return(v) == [err |-> "none", val |-> Some(v)]

Raise(e) == [err |-> e, val |-> None]

\* "/" in s
HasSlash(s) == \E i \in DOMAIN s : s[i] = "/"

(***************************************************************************)
(* pathlib on POSIX, as far as Smt2File uses it.  A path is [root, tail]:  *)
(* root is "", "/" or "//" and tail is the sequence of its components.     *)
(***************************************************************************)
\* s.startswith("/")
IsAbs(s) == Len(s) > 0 /\ s[1] = "/"

\* posixpath.join over the arguments of Path(...): an absolute argument
\* discards what precedes it, and "/" is put between the others unless the
\* text so far is empty or ends with "/".
RECURSIVE JoinArgs(_, _)
JoinArgs(acc0, args) ==
  IF args = <<>> THEN acc0
  ELSE LET a == Head(args)
           r == IF IsAbs(a) THEN a
                ELSE IF acc0 = <<>> \/ acc0[Len(acc0)] = "/" THEN acc0 \o a
                ELSE acc0 \o <<"/">> \o a
       IN JoinArgs(r, Tail(args))

\* s.split("/")
RECURSIVE SplitSlash(_)
SplitSlash(s) ==
  IF ~HasSlash(s) THEN <<s>>
  ELSE LET k == CHOOSE i \in DOMAIN s :
                  s[i] = "/" /\ \A j \in 1..(i - 1) : s[j] # "/"
       IN <<SubSeq(s, 1, k - 1)>> \o SplitSlash(SubSeq(s, k + 1, Len(s)))

\* The number of "/" that s starts with.
RECURSIVE LeadingSlashes(_)
LeadingSlashes(s) ==
  IF IsAbs(s) THEN 1 + LeadingSlashes(Tail(s)) ELSE 0

\* The components pathlib keeps: it drops the empty ones and the "." ones.
RECURSIVE KeepParts(_)
KeepParts(cs) ==
  IF cs = <<>> THEN <<>>
  ELSE IF Head(cs) = <<>> \/ Head(cs) = <<".">> THEN KeepParts(Tail(cs))
  ELSE <<Head(cs)>> \o KeepParts(Tail(cs))

\* PurePosixPath parsing of one str: exactly two leading slashes are the
\* root "//", one or more than two are the root "/".
ParsePath(s) ==
  LET n == LeadingSlashes(s)
  IN [root |-> IF n = 0 THEN <<>>
               ELSE IF n = 2 THEN <<"/", "/">> ELSE <<"/">>,
      tail |-> KeepParts(SplitSlash(s))]

\* Path(*args), the arguments being str.
PathOf(args) == ParsePath(JoinArgs(<<>>, args))

\* "/".join(tail)
RECURSIVE JoinTail(_)
JoinTail(tail) ==
  IF tail = <<>> THEN <<>>
  ELSE IF Len(tail) = 1 THEN tail[1]
  ELSE tail[1] \o <<"/">> \o JoinTail(Tail(tail))

\* str(path): os.fspath of a path, "." for the empty path.
PathStr(q) ==
  IF q.root = <<>> /\ q.tail = <<>> THEN <<".">>
  ELSE q.root \o JoinTail(q.tail)

\* path.joinpath(other), other being a str.
JoinPath(q, other) == PathOf(<<PathStr(q), other>>)

\* PurePath(path).parts: the root, when there is one, then the components.
Parts(q) == (IF q.root = <<>> THEN <<>> ELSE <<q.root>>) \o q.tail

(***************************************************************************)
(* Smt2File: a frozen record [incremental, logic, family, name], built     *)
(* only through the constructor, which runs the validator check_archive.   *)
(***************************************************************************)
\* A check_archive that looks at the name and skips the family parts.
Smt2File_check_archive_NameOnly(f) ==
  IF HasSlash(f.name) THEN Raise("ValidationError") ELSE Return(f)

\* Smt2File.check_archive (mode="after"): the error of a file whose name or
\* one of whose family parts contains "/".
Smt2File_check_archive(f) ==
  IF HasSlash(f.name) THEN Raise("ValidationError")
  ELSE IF \E i \in DOMAIN f.family : HasSlash(f.family[i])
       THEN Raise("ValidationError")
  ELSE Return(f)

\* Smt2File(incremental=..., logic=..., family=..., name=...)
Smt2File(incremental, logic, family, name) ==
  Smt2File_check_archive(
    [incremental |-> incremental, logic |-> logic,
     family |-> family, name |-> name])

Str_incremental == <<"i", "n", "c", "r", "e", "m", "e", "n", "t", "a", "l">>

Str_non_incremental == <<"n", "o", "n", "-">> \o Str_incremental

\* str(logic): EnumAutoInt.__str__ gives str(self.value).
EnumStr(logic) == LogicValue[logic]

\* Logic(value): the member with that value, or ValueError.
LogicOfValue(v) ==
  IF \E l \in Logic : LogicValue[l] = v
  THEN Return(CHOOSE l \in Logic : LogicValue[l] = v)
  ELSE Raise("ValueError")

\* Smt2File.path
Smt2File_path(f) ==
  LET i == IF f.incremental THEN Str_incremental ELSE Str_non_incremental
  IN JoinPath(JoinPath(PathOf(<<i, EnumStr(f.logic)>>),
                       PathStr(PathOf(f.family))),
              f.name)

\* Smt2File.of_tuple, family being a path.
Smt2File_of_tuple(incremental, logic, family, name) ==
  Smt2File(incremental, logic, Parts(family), name)

\* An of_path whose match takes every first part that is not "incremental"
\* for "non-incremental".
Smt2File_of_path_AnyFlag(q) ==
  LET parts == Parts(q)
  IN IF Len(parts) < 2 THEN Raise("IndexError")
     ELSE LET logic == LogicOfValue(parts[2])
          IN IF logic.err # "none" THEN Raise(logic.err)
             ELSE Smt2File(parts[1] = Str_incremental, logic.val[1],
                           SubSeq(parts, 3, Len(parts) - 1),
                           parts[Len(parts)])

\* Smt2File.of_path: parts[0] and parts[1] raise IndexError when the path
\* has no such part; parts[2:-1] is the family and parts[-1] the name.
Smt2File_of_path(q) ==
  LET parts == Parts(q)
  IN IF Len(parts) < 1 THEN Raise("IndexError")
     ELSE IF parts[1] \notin {Str_incremental, Str_non_incremental}
          THEN Raise("ValueError")
     ELSE IF Len(parts) < 2 THEN Raise("IndexError")
     ELSE LET logic == LogicOfValue(parts[2])
          IN IF logic.err # "none" THEN Raise(logic.err)
             ELSE Smt2File(parts[1] = Str_incremental, logic.val[1],
                           SubSeq(parts, 3, Len(parts) - 1),
                           parts[Len(parts)])

(***************************************************************************)
(* The participation merger.  A dict is a function on its keys, the empty  *)
(* dict the function on no key; a Participation is [tracks, divisions,     *)
(* logics], the three lists that get reads.  The accumulator is changed in *)
(* place, so a merge gives [d, err]: the accumulator as the call left it   *)
(* and "none", or the exception that ended the call.                       *)
(***************************************************************************)
EmptyDict == [k \in {} |-> {}]

\* d[k] = v
Put(d, k, v) == [x \in DOMAIN d \cup {k} |-> IF x = k THEN v ELSE d[x]]

\* d.setdefault(k, v), as the dict it leaves.
SetDefault(d, k, v) == IF k \in DOMAIN d THEN d ELSE Put(d, k, v)

\* A division step that takes the division's logics from every track.
DivisionStep_AllTracks(d, track, division) ==
  LET divs == SetDefault(d[track], division, {})
      d1 == Put(d, track, divs)
  IN IF track \notin DOMAIN tracks \/ division \notin DOMAIN tracks[track]
     THEN [d |-> d1, err |-> "KeyError"]
     ELSE [d |-> Put(d, track,
                     Put(divs, division,
                         divs[division] \cup
                           UNION {tracks[t][division] :
                                    t \in {x \in DOMAIN tracks :
                                             division \in DOMAIN tracks[x]}})),
           err |-> "none"]

\* A division step whose update is a symmetric difference (^= for |=).
DivisionStep_Toggle(d, track, division) ==
  LET divs == SetDefault(d[track], division, {})
      d1 == Put(d, track, divs)
      old == divs[division]
      new == tracks[track][division]
  IN IF track \notin DOMAIN tracks \/ division \notin DOMAIN tracks[track]
     THEN [d |-> d1, err |-> "KeyError"]
     ELSE [d |-> Put(d, track,
                     Put(divs, division, (old \ new) \cup (new \ old))),
           err |-> "none"]

\* One turn of "for division in self.divisions", d[track] being there:
\*   logics = divs.setdefault(division, set())
\*   logics.update(tracks[track][division])
\* The subscript raises KeyError after setdefault has acted.
DivisionStep(d, track, division) ==
  LET divs == SetDefault(d[track], division, {})
      d1 == Put(d, track, divs)
  IN IF track \notin DOMAIN tracks \/ division \notin DOMAIN tracks[track]
     THEN [d |-> d1, err |-> "KeyError"]
     ELSE [d |-> Put(d, track,
                     Put(divs, division,
                         divs[division] \cup tracks[track][division])),
           err |-> "none"]

\* A logic step that adds the whole division of the logic.
LogicStep_WholeDivision(d, track, logic) ==
  IF track \notin DOMAIN tracks THEN [d |-> d, err |-> "KeyError"]
  ELSE LET hit == {div \in DOMAIN tracks[track] : logic \in tracks[track][div]}
           divs == d[track]
       IN [d |-> Put(d, track,
                     [div \in DOMAIN divs \cup hit |->
                        IF div \in hit
                        THEN (IF div \in DOMAIN divs THEN divs[div] ELSE {})
                             \cup tracks[track][div]
                        ELSE divs[div]]),
           err |-> "none"]

\* One turn of "for logic in self.logics.root", d[track] being there:
\*   for div, logics in tracks[track].items():
\*       if logic in logics:
\*           logics = divs.setdefault(div, set()); logics.add(logic)
\* Each division writes its own entry only, so the order of items() does
\* not show in the result.
LogicStep(d, track, logic) ==
  IF track \notin DOMAIN tracks THEN [d |-> d, err |-> "KeyError"]
  ELSE LET hit == {div \in DOMAIN tracks[track] : logic \in tracks[track][div]}
           divs == d[track]
       IN [d |-> Put(d, track,
                     [div \in DOMAIN divs \cup hit |->
                        IF div \in hit
                        THEN (IF div \in DOMAIN divs THEN divs[div] ELSE {})
                             \cup {logic}
                        ELSE divs[div]]),
           err |-> "none"]

\* for division in self.divisions: ..., stopping at the first exception.
RECURSIVE DivisionsLoop(_, _, _)
DivisionsLoop(d, track, divisions) ==
  IF divisions = <<>> THEN [d |-> d, err |-> "none"]
  ELSE LET r == DivisionStep(d, track, Head(divisions))
       IN IF r.err # "none" THEN r
          ELSE DivisionsLoop(r.d, track, Tail(divisions))

\* for logic in self.logics.root: ...
RECURSIVE LogicsLoop(_, _, _)
LogicsLoop(d, track, logics) ==
  IF logics = <<>> THEN [d |-> d, err |-> "none"]
  ELSE LET r == LogicStep(d, track, Head(logics))
       IN IF r.err # "none" THEN r
          ELSE LogicsLoop(r.d, track, Tail(logics))

\* A loop over the tracks that takes a Participation listing no division
\* and no logic as listing every division of the track.
RECURSIVE TracksLoop_DefaultAll(_, _, _)
TracksLoop_DefaultAll(d, trackList, p) ==
  IF trackList = <<>> THEN [d |-> d, err |-> "none"]
  ELSE LET track == Head(trackList)
           divisions ==
             IF p.divisions = <<>> /\ p.logics = <<>>
             THEN SelectSeq(DivisionMembers,
                            LAMBDA k : k \in DOMAIN tracks[track])
             ELSE p.divisions
           r1 == DivisionsLoop(SetDefault(d, track, EmptyDict), track,
                               divisions)
           r2 == IF r1.err # "none" THEN r1
                 ELSE LogicsLoop(r1.d, track, p.logics)
       IN IF r2.err # "none" THEN r2
          ELSE TracksLoop_DefaultAll(r2.d, Tail(trackList), p)

\* for track in self.tracks: divs = d.setdefault(track, {}), then the two
\* loops.
RECURSIVE TracksLoop(_, _, _)
TracksLoop(d, trackList, p) ==
  IF trackList = <<>> THEN [d |-> d, err |-> "none"]
  ELSE LET track == Head(trackList)
           r1 == DivisionsLoop(SetDefault(d, track, EmptyDict), track,
                               p.divisions)
           r2 == IF r1.err # "none" THEN r1
                 ELSE LogicsLoop(r1.d, track, p.logics)
       IN IF r2.err # "none" THEN r2
          ELSE TracksLoop(r2.d, Tail(trackList), p)

\* Participation.get(self, d), d being a dict or None.
Participation_get(p, d) ==
  TracksLoop(IF d = None THEN EmptyDict ELSE d, p.tracks, p)

\* A Participations.get that starts from a new dict whatever d is.
Participations_get_Fresh(root, d) ==
  LET RECURSIVE Loop(_, _)
      Loop(dd, ps) ==
        IF ps = <<>> THEN [d |-> dd, err |-> "none"]
        ELSE LET r == Participation_get(Head(ps), dd)
             IN IF r.err # "none" THEN r ELSE Loop(r.d, Tail(ps))
  IN Loop(EmptyDict, root)

\* Participations.get(self, d): for p in self.root: p.get(d)
Participations_get(root, d) ==
  LET RECURSIVE Loop(_, _)
      Loop(dd, ps) ==
        IF ps = <<>> THEN [d |-> dd, err |-> "none"]
        ELSE LET r == Participation_get(Head(ps), dd)
             IN IF r.err # "none" THEN r ELSE Loop(r.d, Tail(ps))
  IN Loop(IF d = None THEN EmptyDict ELSE d, root)

(***************************************************************************)
(* The merger on objects.  A heap maps the identity of an object to the    *)
(* object: a dict is [kind, items] with items a function from its keys to  *)
(* the identities of its values, a set is [kind, items] with items its     *)
(* elements.  The module-level tracks is object 1, the dict of each track  *)
(* and the set of each division follow, and every object made later takes  *)
(* the next identity: the identities of a heap are 1..n.                   *)
(***************************************************************************)
DictObj(items) == [kind |-> "dict", items |-> items]

SetObj(items) == [kind |-> "set", items |-> items]

\* The place of x in the sequence s of distinct elements.
IndexOf(s, x) == CHOOSE i \in DOMAIN s : s[i] = x

\* The identity of the module-level dict tracks.
TracksId == 1

\* The identity of tracks[t].
TrackDictId(t) == TracksId + IndexOf(TrackMembers, t)

\* The sets of the table, as <<track, division>>, track by track.
TablePairs ==
  SelectSeq([i \in 1..(Len(TrackMembers) * Len(DivisionMembers)) |->
               <<TrackMembers[((i - 1) \div Len(DivisionMembers)) + 1],
                 DivisionMembers[((i - 1) % Len(DivisionMembers)) + 1]>>],
            LAMBDA x : x[1] \in DOMAIN tracks /\ x[2] \in DOMAIN tracks[x[1]])

\* The identity of tracks[t][dv].
TrackSetId(t, dv) ==
  TracksId + Len(TrackMembers) + IndexOf(TablePairs, <<t, dv>>)

\* The heap when the module is loaded.
LoadedHeap ==
  LET sets == {<<t, dv>> \in Track \X Division :
                 t \in DOMAIN tracks /\ dv \in DOMAIN tracks[t]}
      ids == {TracksId} \cup {TrackDictId(t) : t \in DOMAIN tracks}
               \cup {TrackSetId(x[1], x[2]) : x \in sets}
  IN [id \in ids |->
        IF id = TracksId
        THEN DictObj([t \in DOMAIN tracks |-> TrackDictId(t)])
        ELSE IF \E t \in DOMAIN tracks : id = TrackDictId(t)
        THEN LET t == CHOOSE t \in DOMAIN tracks : id = TrackDictId(t)
             IN DictObj([dv \in DOMAIN tracks[t] |-> TrackSetId(t, dv)])
        ELSE LET x == CHOOSE x \in sets : id = TrackSetId(x[1], x[2])
             IN SetObj(tracks[x[1]][x[2]])]

\* The identity the next object takes.
NewId(h) == Cardinality(DOMAIN h) + 1

\* dict.setdefault(key, obj) on the dict of identity dict, obj being a new
\* object: [h, id], the heap it leaves and the identity it returns.
HeapSetDefault(h, dict, key, obj) ==
  IF key \in DOMAIN h[dict].items
  THEN [h |-> h, id |-> h[dict].items[key]]
  ELSE LET n == NewId(h)
       IN [h |-> (n :> obj)
                   @@ [h EXCEPT ![dict] = DictObj(Put(h[dict].items, key, n))],
           id |-> n]

\* divs = d.setdefault(track, tracks[track]): the accumulator is given the
\* table's own dict.
HeapTrackDivs_Alias(h, d, track) ==
  IF track \in DOMAIN h[d].items
  THEN [h |-> h, id |-> h[d].items[track]]
  ELSE LET shared == h[TracksId].items[track]
       IN [h |-> [h EXCEPT ![d] = DictObj(Put(h[d].items, track, shared))],
           id |-> shared]

\* divs = d.setdefault(track, {})
HeapTrackDivs(h, d, track) == HeapSetDefault(h, d, track, DictObj(EmptyDict))

\* A step that raised nothing and left the heap h.
OkHeap(h) == [h |-> h, err |-> "none"]

\* What F gives on the heap the step r left, unless r raised.
Then(r, F(_)) == IF r.err # "none" THEN r ELSE F(r.h)

\* What F gives on the heap and the identity s holds.
HeapApply(s, F(_, _)) == F(s.h, s.id)

\* logics.update(tracks[track][division]), logics being the identity of a
\* set.
HeapUpdateFromTable(h, logics, track, division) ==
  LET table == h[TracksId].items
  IN IF track \notin DOMAIN table
     THEN [h |-> h, err |-> "KeyError"]
     ELSE IF division \notin DOMAIN h[table[track]].items
     THEN [h |-> h, err |-> "KeyError"]
     ELSE OkHeap([h EXCEPT ![logics] =
                    SetObj(h[logics].items
                             \cup h[h[table[track]].items[division]].items)])

\* logics = divs.setdefault(division, set());
\* logics.update(tracks[track][division])
HeapDivisionStep(h, divs, track, division) ==
  HeapApply(HeapSetDefault(h, divs, division, SetObj({})),
            LAMBDA hh, logics :
              HeapUpdateFromTable(hh, logics, track, division))

\* logics.add(logic), logics being the identity of a set.
HeapSetAdd(h, logics, logic) ==
  [h EXCEPT ![logics] = SetObj(h[logics].items \cup {logic})]

\* for div, logics in tracks[track].items(): if logic in logics:
\* logics = divs.setdefault(div, set()); logics.add(logic)
\* (td is the identity of tracks[track], keys what is left of its keys).
RECURSIVE HeapItemsLoop(_, _, _, _, _)
HeapItemsLoop(h, divs, td, logic, keys) ==
  IF keys = <<>> THEN h
  ELSE IF logic \in h[h[td].items[Head(keys)]].items
  THEN HeapItemsLoop(
         HeapApply(HeapSetDefault(h, divs, Head(keys), SetObj({})),
                   LAMBDA hh, logics : HeapSetAdd(hh, logics, logic)),
         divs, td, logic, Tail(keys))
  ELSE HeapItemsLoop(h, divs, td, logic, Tail(keys))

\* The body of the loop over self.logics.root, for one logic.
HeapLogicStep(h, divs, track, logic) ==
  IF track \notin DOMAIN h[TracksId].items
  THEN [h |-> h, err |-> "KeyError"]
  ELSE OkHeap(HeapItemsLoop(
                h, divs, h[TracksId].items[track], logic,
                SelectSeq(DivisionMembers,
                          LAMBDA k :
                            k \in DOMAIN h[h[TracksId].items[track]].items)))

\* for division in self.divisions: ...
RECURSIVE HeapDivisionsLoop(_, _, _, _)
HeapDivisionsLoop(h, divs, track, divisions) ==
  IF divisions = <<>> THEN OkHeap(h)
  ELSE Then(HeapDivisionStep(h, divs, track, Head(divisions)),
            LAMBDA hh : HeapDivisionsLoop(hh, divs, track, Tail(divisions)))

\* for logic in self.logics.root: ...
RECURSIVE HeapLogicsLoop(_, _, _, _)
HeapLogicsLoop(h, divs, track, logics) ==
  IF logics = <<>> THEN OkHeap(h)
  ELSE Then(HeapLogicStep(h, divs, track, Head(logics)),
            LAMBDA hh : HeapLogicsLoop(hh, divs, track, Tail(logics)))

\* The two loops of one track, divs being the identity of d[track].
HeapTrackBody(h, divs, track, p) ==
  Then(HeapDivisionsLoop(h, divs, track, p.divisions),
       LAMBDA hh : HeapLogicsLoop(hh, divs, track, p.logics))

\* for track in self.tracks: ..., d being the identity of the accumulator.
RECURSIVE HeapTracksLoop(_, _, _, _)
HeapTracksLoop(h, d, trackList, p) ==
  IF trackList = <<>> THEN OkHeap(h)
  ELSE Then(HeapApply(HeapTrackDivs(h, d, Head(trackList)),
                      LAMBDA hh, divs :
                        HeapTrackBody(hh, divs, Head(trackList), p)),
            LAMBDA hh : HeapTracksLoop(hh, d, Tail(trackList), p))

\* if d is None: d = {} -- d is None or <<identity>>; [h, id].
HeapAccumulator(h, d) ==
  IF d = None
  THEN [h |-> (NewId(h) :> DictObj(EmptyDict)) @@ h, id |-> NewId(h)]
  ELSE [h |-> h, id |-> d[1]]

\* What a call gives: the heap and the error of r, and the identity d of
\* the accumulator it worked on.
HeapResult(r, d) == [h |-> r.h, d |-> d, err |-> r.err]

\* Participation.get(self, d) on the heap h: [h, d, err], d being the
\* identity of the accumulator.
HeapParticipation_get(h, p, d) ==
  HeapApply(HeapAccumulator(h, d),
            LAMBDA hh, id : HeapResult(HeapTracksLoop(hh, id, p.tracks, p), id))

\* for p in self.root: p.get(d), d being the identity of the accumulator.
RECURSIVE HeapParticipationsLoop(_, _, _)
HeapParticipationsLoop(h, d, ps) ==
  IF ps = <<>> THEN OkHeap(h)
  ELSE Then(HeapParticipation_get(h, Head(ps), Some(d)),
            LAMBDA hh : HeapParticipationsLoop(hh, d, Tail(ps)))

\* Participations.get(self, d) on the heap h.
HeapParticipations_get(h, root, d) ==
  HeapApply(HeapAccumulator(h, d),
            LAMBDA hh, id : HeapResult(HeapParticipationsLoop(hh, id, root), id))

\* The content of the dict of dicts of sets of identity id.
HeapView(h, id) ==
  [t \in DOMAIN h[id].items |->
     [dv \in DOMAIN h[h[id].items[t]].items |->
        h[h[h[id].items[t]].items[dv]].items]]

\* The objects of the dict of dicts of sets d, d being None or <<identity>>.
HeapObjects(h, d) ==
  IF d = None THEN {}
  ELSE LET dicts == {h[d[1]].items[t] : t \in DOMAIN h[d[1]].items}
       IN {d[1]} \cup dicts
            \cup UNION {{h[x].items[dv] : dv \in DOMAIN h[x].items} : x \in dicts}

(***************************************************************************)
(* Regular expressions, as far as the patterns of the model go: a pattern  *)
(* is a str of ordinary characters, "." and "*".  A compiled pattern is    *)
(* the sequence of its items [c, star]: the character c (or "." for any    *)
(* character), repeated any number of times when star.                     *)
(***************************************************************************)
\* The items of a pattern that compiles.
RECURSIVE re_items(_)
re_items(data) ==
  IF data = <<>> THEN <<>>
  ELSE IF Len(data) >= 2 /\ data[2] = "*"
  THEN <<[c |-> data[1], star |-> TRUE]>>
         \o re_items(SubSeq(data, 3, Len(data)))
  ELSE <<[c |-> data[1], star |-> FALSE]>> \o re_items(Tail(data))

\* re.compile(data): a "*" with nothing to repeat, or that repeats a
\* repetition, is an error.
re_compile(data) ==
  IF \E i \in DOMAIN data :
       data[i] = "*" /\ (i = 1 \/ data[i - 1] = "*")
  THEN Raise("re.error")
  ELSE Return(re_items(data))

\* The item character c matches the character x.
re_Hit(c, x) == c = x \/ (c = "." /\ x # "\n")

\* The positions of s that one item leads to from the positions P.
re_Step(item, s, P) ==
  IF item.star
  THEN {j \in 0..Len(s) :
          \E i \in P : i <= j /\ \A k \in (i + 1)..j : re_Hit(item.c, s[k])}
  ELSE {j \in 1..Len(s) : (j - 1) \in P /\ re_Hit(item.c, s[j])}

\* The positions of s that the items lead to from the positions P.
RECURSIVE re_Ends(_, _, _)
re_Ends(items, s, P) ==
  IF items = <<>> THEN P
  ELSE re_Ends(Tail(items), s, re_Step(Head(items), s, P))

\* r.fullmatch(s) is a match: the items lead from the start of s to its end.
re_fullmatch(items, s) == Len(s) \in re_Ends(items, s, {0})

\* A selector that matches a prefix of the name, as r.match does.
logics_from_regexp_Match(data) ==
  LET r == re_compile(data)
  IN IF r.err # "none" THEN Raise(r.err)
     ELSE Return(SelectSeq(LogicMembers,
                   LAMBDA logic : re_Ends(r.val[1], EnumStr(logic), {0}) # {}))

\* Logics.logics_from_regexp(data)
logics_from_regexp(data) ==
  LET r == re_compile(data)
  IN IF r.err # "none" THEN Raise(r.err)
     ELSE Return(SelectSeq(LogicMembers,
                   LAMBDA logic : re_fullmatch(r.val[1], EnumStr(logic))))

(***************************************************************************)
(* logic_used_for_track.  The values of a dict come in the order its keys  *)
(* were inserted; here they are taken in the order of the declaration of   *)
(* Division, which gives the same union.                                   *)
(***************************************************************************)
\* list(d.values()), d being a dict keyed by Division.
dict_values(d) ==
  LET keys == SelectSeq(DivisionMembers, LAMBDA k : k \in DOMAIN d)
  IN [i \in 1..Len(keys) |-> d[keys[i]]]

\* The lambda x, y: x | y folded over ys from x.
RECURSIVE ReduceOr(_, _)
ReduceOr(x, ys) ==
  IF ys = <<>> THEN x ELSE ReduceOr(x \cup Head(ys), Tail(ys))

\* A reduce whose function returns its second argument.
functools_reduce_or_Last(values) ==
  IF values = <<>> THEN Raise("TypeError")
  ELSE Return(values[Len(values)])

\* functools.reduce(lambda x, y: x | y, values): without initial value, an
\* empty values is a TypeError.
functools_reduce_or(values) ==
  IF values = <<>> THEN Raise("TypeError")
  ELSE Return(ReduceOr(Head(values), Tail(values)))

\* logic_used_for_track(t)
logic_used_for_track(t) ==
  IF t \notin DOMAIN tracks THEN Raise("KeyError")
  ELSE functools_reduce_or(dict_values(tracks[t]))

(***************************************************************************)
(* The validated records.  A constructor returns [errs, val]: errs is      *)
(* empty and val is <<object>>, or errs holds what the ValidationError     *)
(* reports and val is <<>>.  The fields of an object are validated first,  *)
(* every failing field being reported by its name; the validator that runs *)
(* after them is called only when no field failed, and what it raises is   *)
(* reported by its message.                                                *)
(***************************************************************************)
Valid(v) == [errs |-> {}, val |-> Some(v)]

Invalid(errs) == [errs |-> errs, val |-> None]

OneHashRequired == "one hash type is required"

\* A check_one_set that accepts every Hash.
Hash_check_one_set_Never(self) == Valid(self)

\* Hash.check_one_set(self)
Hash_check_one_set(self) ==
  IF self.sha256 = None /\ self.sha512 = None
  THEN Invalid({OneHashRequired})
  ELSE Valid(self)

\* Hash(sha256=..., sha512=...): each is None or <<str>>.
Hash(sha256, sha512) ==
  Hash_check_one_set([sha256 |-> sha256, sha512 |-> sha512])

\* Archive(url=..., h=...): url is None when the record gives no url, and
\* h is None or <<the record of the hash part>>.
Archive(url, h) ==
  LET hh == IF h = None THEN Valid(None) ELSE Hash(h[1].sha256, h[1].sha512)
      errs == (IF url = None THEN {"url"} ELSE {})
                \cup (IF hh.errs # {} THEN {"h"} ELSE {})
  IN IF errs # {} THEN Invalid(errs)
     ELSE Valid([url |-> url[1],
                 h |-> IF h = None THEN None ELSE hh.val])

\* Command.split_command(data) and the fields: data is the list form.
Command(data) ==
  IF Len(data) < 1 THEN Invalid({"Command must be a non empty list"})
  ELSE Valid([binary |-> data[1], arguments |-> Tail(data),
              compa_starexec |-> FALSE])

\* An optional field whose value, when given, is built by a constructor:
\* built is what the constructor returned.
OptionalField(raw, built) == IF raw = None THEN Valid(None) ELSE built

\* The archive field of a record: None or <<[url, h]>>.
ArchiveField(raw) ==
  OptionalField(raw, Archive(raw[1].url, raw[1].h))

\* The command field of a record: None or <<list>>.
CommandField(raw) == OptionalField(raw, Command(raw[1]))

\* Participation(archive=..., command=...): the two fields a Submission
\* looks at; tracks, logics, divisions and experimental are not modelled
\* here.
Participation(archive, command) ==
  LET a == ArchiveField(archive)
      c == CommandField(command)
      errs == (IF a.errs # {} THEN {"archive"} ELSE {})
                \cup (IF c.errs # {} THEN {"command"} ELSE {})
  IN IF errs # {} THEN Invalid(errs)
     ELSE Valid([archive |-> IF archive = None THEN None ELSE a.val,
                 command |-> IF command = None THEN None ELSE c.val])

ArchiveNeeded ==
  "Field archive is needed in all participations if not present at the root"

CommandNeeded ==
  "Field command is needed in all participations if not present at the root"

\* all(p.archive for p in ps): an Archive is always true.
AllArchive(ps) == \A i \in DOMAIN ps : ps[i].archive # None

\* all(p.command for p in ps)
AllCommand(ps) == \A i \in DOMAIN ps : ps[i].command # None

\* A check_archive that looks at the first participation only.
Submission_check_archive_FirstOnly(self) ==
  LET first == IF self.participations = <<>> THEN <<>>
               ELSE <<Head(self.participations)>>
  IN IF self.archive = None /\ ~AllArchive(first)
     THEN Invalid({ArchiveNeeded})
     ELSE IF self.command = None /\ ~AllCommand(first)
     THEN Invalid({CommandNeeded})
     ELSE Valid(self)

\* Submission.check_archive(self)
Submission_check_archive(self) ==
  IF self.archive = None /\ ~AllArchive(self.participations)
  THEN Invalid({ArchiveNeeded})
  ELSE IF self.command = None /\ ~AllCommand(self.participations)
  THEN Invalid({CommandNeeded})
  ELSE Valid(self)

\* Submission(contributors=..., contacts=..., archive=..., command=...,
\* participations=...): contributors and contacts are lists, archive and
\* command are as in Participation, participations is the list of the
\* participations' records.  name, website, system_description and
\* solver_type are not modelled.
Submission(contributors, contacts, archive, command, participations) ==
  LET a == ArchiveField(archive)
      c == CommandField(command)
      ps == [i \in DOMAIN participations |->
               Participation(participations[i].archive,
                             participations[i].command)]
      errs == (IF Len(contributors) < 1 THEN {"contributors"} ELSE {})
                \cup (IF Len(contacts) < 1 THEN {"contacts"} ELSE {})
                \cup (IF a.errs # {} THEN {"archive"} ELSE {})
                \cup (IF c.errs # {} THEN {"command"} ELSE {})
                \cup (IF \E i \in DOMAIN ps : ps[i].errs # {}
                      THEN {"participations"} ELSE {})
  IN IF errs # {} THEN Invalid(errs)
     ELSE Submission_check_archive(
            [contributors |-> contributors,
             contacts |-> contacts,
             archive |-> IF archive = None THEN None ELSE a.val,
             command |-> IF command = None THEN None ELSE c.val,
             participations |-> [i \in DOMAIN ps |-> ps[i].val[1]]])

(***************************************************************************)
(* The inputs of the codec.                                                *)
(***************************************************************************)
\* The longest family tuple that is built.
MaxFamily == 2

\* The most arguments a caller's path is made of.
MaxRawParts == 3

\* The sequences over S of length at most n.
SeqUpTo(S, n) == UNION {[1..k -> S] : k \in 0..n}

Str_sub == <<"s", "u", "b">>

Str_dir == <<"d", "i", "r">>

Str_bench1_smt2 == <<"b", "e", "n", "c", "h", "1", ".", "s", "m", "t", "2">>

\* The strings a name or a family part is drawn from: plain ones, the empty
\* one, ".", and one that holds a "/".
SegStrs == {<<>>, <<".">>, Str_sub, Str_dir, Str_bench1_smt2, <<"a", "/", "b">>}

Families == SeqUpTo(SegStrs, MaxFamily)

\* The family paths given to of_tuple: relative ones and absolute ones.
FamilyPaths ==
  {PathOf(fam) : fam \in Families} \cup {PathOf(<<<<"/">>>> \o fam) : fam \in Families}

\* The arguments a caller's path is drawn from: the two flags, a flag in
\* another case, values of Logic members, a Logic value in lower case, a
\* plain string, the empty string and the root.
RawSegs ==
  {Str_incremental, Str_non_incremental, <<"I">> \o Tail(Str_incremental),
   LogicValue["QF_LIA"], LogicValue["UFNRA"], <<"q", "f", "_", "l", "i", "a">>,
   Str_bench1_smt2, <<>>, <<"/">>}

RawPaths == {PathOf(args) : args \in SeqUpTo(RawSegs, MaxRawParts)}

(***************************************************************************)
(* The inputs of the merger.                                               *)
(***************************************************************************)
\* The most calls made on one accumulator.
MaxCalls == 2

\* The longest tracks list of a Participation.
MaxTracks == 1

\* The most divisions and logics a Participation lists, taken together.
MaxEntries == 1

\* The longest list of a Participations.
MaxParticipations == 2

\* Two tracks whose tables differ.
SampleTracks == {"SingleQuery", "Incremental"}

\* QF_LinearIntArith is {QF_IDL, QF_LIA, QF_LIRA} under SingleQuery and
\* {QF_LIA} under Incremental; QF_Datatypes is {QF_DT, QF_UFDT} under
\* SingleQuery and is not a key of tracks[Incremental].
SampleDivisions == {"QF_LinearIntArith", "QF_Datatypes"}

\* QF_LIA is under both tracks, in QF_LinearIntArith; QF_DT is under
\* SingleQuery only, in QF_Datatypes.
SampleLogics == {"QF_LIA", "QF_DT"}

ParticipationInputs ==
  {x \in {[tracks |-> t, divisions |-> dv, logics |-> l] :
            t \in SeqUpTo(SampleTracks, MaxTracks),
            dv \in SeqUpTo(SampleDivisions, MaxEntries),
            l \in SeqUpTo(SampleLogics, MaxEntries)} :
     Len(x.divisions) + Len(x.logics) <= MaxEntries}

\* The Participations that the lists of Participations.get are made of: a
\* division of SingleQuery; two logics under two tracks, one of them under
\* no division of the second track; a division and a sibling logic under
\* Incremental; a division that tracks[Incremental] does not have.
ListedParticipations ==
  {[tracks |-> <<"SingleQuery">>, divisions |-> <<"QF_LinearIntArith">>,
    logics |-> <<>>],
   [tracks |-> <<"SingleQuery", "Incremental">>, divisions |-> <<>>,
    logics |-> <<"QF_LIA", "QF_DT">>],
   [tracks |-> <<"Incremental">>, divisions |-> <<"QF_LinearIntArith">>,
    logics |-> <<"QF_IDL">>],
   [tracks |-> <<"Incremental">>, divisions |-> <<"QF_Datatypes">>,
    logics |-> <<>>]}

ParticipationsInputs == SeqUpTo(ListedParticipations, MaxParticipations)

(***************************************************************************)
(* The inputs of the validated records.                                    *)
(***************************************************************************)
\* The longest list of participations a Submission is given.
MaxSubmitted == 2

SampleUrl == "https://example.org/solver.tar.gz"

\* The hash parts: every choice of which digests are set.
HashInputs ==
  [sha256 : {None, Some("digest256")}, sha512 : {None, Some("digest512")}]

\* The Archive records: with and without url, with and without hash part.
ArchiveInputs ==
  [url : {None, Some(SampleUrl)}, h : {None} \cup {Some(x) : x \in HashInputs}]

\* The Command lists.
CommandInputs == {<<>>, <<"solver">>, <<"solver", "--smt2">>}

\* The archive fields a Submission and its participations are given: no
\* archive, one without hash part, one with a sha256, and one whose hash
\* part sets neither digest.
ArchiveFields ==
  {None,
   Some([url |-> Some(SampleUrl), h |-> None]),
   Some([url |-> Some(SampleUrl),
         h |-> Some([sha256 |-> Some("digest256"), sha512 |-> None])]),
   Some([url |-> Some(SampleUrl),
         h |-> Some([sha256 |-> None, sha512 |-> None])])}

\* The command fields: no command, or a command.
CommandFields == {None, Some(<<"solver">>)}

PeopleInputs == {<<>>, <<"Jane Smith">>}

ParticipationRecords == [archive : ArchiveFields, command : CommandFields]

SubmissionInputs ==
  [contributors : PeopleInputs, contacts : PeopleInputs,
   archive : ArchiveFields, command : CommandFields,
   participations : SeqUpTo(ParticipationRecords, MaxSubmitted)]

(***************************************************************************)
(* The inputs of the selector.                                             *)
(***************************************************************************)
\* The most pieces a pattern is made of.
MaxPieces == 3

Str_QF_BV == <<"Q", "F", "_", "B", "V">>

\* The pieces: parts of logic names, any character, any characters, and a
\* repetition of what comes before.
PatternPieces ==
  {<<"Q", "F", "_">>, <<"B", "V">>, <<"F", "P">>, <<"L", "I", "A">>,
   <<"A">>, <<".">>, <<".", "*">>, <<"*">>}

\* The pieces of ps put together.
RECURSIVE Concat(_)
Concat(ps) == IF ps = <<>> THEN <<>> ELSE Head(ps) \o Concat(Tail(ps))

Patterns == {Concat(ps) : ps \in SeqUpTo(PatternPieces, MaxPieces)}

(***************************************************************************)
(* The inputs of the merger on objects.                                    *)
(***************************************************************************)
\* The most calls made on one heap.
MaxHeapCalls == 3

\* The lists of the Participations merged on the heap: the empty list, and
\* the lists of two that start with a Participation of SingleQuery alone.
HeapParticipationsInputs ==
  {<<>>} \cup {root \in [1..2 -> ListedParticipations] :
                 root[1].tracks = <<"SingleQuery">>}

(***************************************************************************)
(* The state.  Codec: file is the Smt2File the last constructing call      *)
(* returned (None when it raised), fileFrom what of_path decoded it from   *)
(* ([path, encoded]: the path, and the Smt2File that path was encoded      *)
(* from, if any); path is the path Smt2File.path last returned and         *)
(* pathFrom the Smt2File it encoded; call is the last call.                *)
(* Merger: acc is the accumulator a caller keeps and passes to get, before *)
(* its content when the last call began, last the last call ([op, root,    *)
(* err]: root is the list of the Participations it merged), ncalls the     *)
(* number of calls made on acc, and again tells that the last call         *)
(* repeated the call before it.                                            *)
(* Validated records: built is the object the last constructor returned    *)
(* (None when it raised) and bcall the last constructor call ([op, errs,   *)
(* args]).  Taxonomy: tcall is the last lookup ([op, arg, err, list, set]:  *)
(* list is what logics_from_regexp returned and set what                   *)
(* logic_used_for_track returned).  Merger on objects: heap is the heap,    *)
(* owned the identities of the accumulators the caller holds, hlast the    *)
(* last call ([op, root, d, err, ret]: d is the accumulator it was passed, *)
(* None or <<identity>>, and ret the identity of the accumulator it worked *)
(* on) and hcalls the number of calls made.                                *)
(***************************************************************************)
VARIABLES file, fileFrom, path, pathFrom, call, acc, before, last, ncalls,
          again, built, bcall, tcall, heap, owned, hlast, hcalls

codecVars == <<file, fileFrom, path, pathFrom, call>>

mergeVars == <<acc, before, last, ncalls, again>>

recordVars == <<built, bcall>>

taxonomyVars == <<tcall>>

heapVars == <<heap, owned, hlast, hcalls>>

vars == <<codecVars, mergeVars, recordVars, taxonomyVars, heapVars>>

\* What the calls of one class leave alone: the state of the others.
codecRest == <<mergeVars, recordVars, taxonomyVars, heapVars>>

mergeRest == <<codecVars, recordVars, taxonomyVars, heapVars>>

recordRest == <<codecVars, mergeVars, taxonomyVars, heapVars>>

taxonomyRest == <<codecVars, mergeVars, recordVars, heapVars>>

heapRest == <<codecVars, mergeVars, recordVars, taxonomyVars>>

Init ==
  /\ file = None
  /\ fileFrom = None
  /\ path = None
  /\ pathFrom = None
  /\ call = [op |-> "none", err |-> "none", args |-> <<>>]
  /\ acc = EmptyDict
  /\ before = EmptyDict
  /\ last = [op |-> "none", root |-> <<>>, err |-> "none"]
  /\ ncalls = 0
  /\ again = FALSE
  /\ built = None
  /\ bcall = [op |-> "none", errs |-> {}, args |-> <<>>]
  /\ tcall = [op |-> "none", arg |-> <<>>, err |-> "none", list |-> <<>>,
              set |-> {}]
  /\ heap = LoadedHeap
  /\ owned = {}
  /\ hlast = [op |-> "none", root |-> <<>>, d |-> None, err |-> "none",
              ret |-> None]
  /\ hcalls = 0

\* Smt2File(...) called directly.
Construct(incremental, logic, family, name) ==
  LET r == Smt2File(incremental, logic, family, name)
  IN /\ file' = r.val
     /\ fileFrom' = None
     /\ call' = [op |-> "Smt2File", err |-> r.err,
                 args |-> <<incremental, logic, family, name>>]
     /\ UNCHANGED <<path, pathFrom, codecRest>>

\* Smt2File.of_tuple(incremental, logic, family, name)
OfTuple(incremental, logic, family, name) ==
  LET r == Smt2File_of_tuple(incremental, logic, family, name)
  IN /\ file' = r.val
     /\ fileFrom' = None
     /\ call' = [op |-> "of_tuple", err |-> r.err,
                 args |-> <<incremental, logic, family, name>>]
     /\ UNCHANGED <<path, pathFrom, codecRest>>

\* file.path() on the Smt2File at hand.
EncodePath ==
  /\ file # None
  /\ path' = Some(Smt2File_path(file[1]))
  /\ pathFrom' = file
  /\ call' = [op |-> "path", err |-> "none", args |-> <<file[1]>>]
  /\ UNCHANGED <<file, fileFrom, codecRest>>

\* Smt2File.of_path(q), q being a caller's path or the path at hand.
OfPath(q) ==
  LET r == Smt2File_of_path(q)
  IN /\ file' = r.val
     /\ fileFrom' = Some([path |-> q,
                          encoded |-> IF path = Some(q) THEN pathFrom ELSE None])
     /\ call' = [op |-> "of_path", err |-> r.err, args |-> <<q>>]
     /\ UNCHANGED <<path, pathFrom, codecRest>>

\* p.get(acc): the caller's accumulator is changed in place, also when the
\* call raises.
ParticipationGet(p) ==
  LET r == Participation_get(p, acc)
  IN /\ ncalls < MaxCalls
     /\ acc' = r.d
     /\ before' = acc
     /\ last' = [op |-> "Participation.get", root |-> <<p>>, err |-> r.err]
     /\ ncalls' = ncalls + 1
     /\ again' = (last.op = "Participation.get" /\ last.root = <<p>>)
     /\ UNCHANGED mergeRest

\* Participations(root).get(acc)
ParticipationsGet(root) ==
  LET r == Participations_get(root, acc)
  IN /\ ncalls < MaxCalls
     /\ acc' = r.d
     /\ before' = acc
     /\ last' = [op |-> "Participations.get", root |-> root, err |-> r.err]
     /\ ncalls' = ncalls + 1
     /\ again' = (last.op = "Participations.get" /\ last.root = root)
     /\ UNCHANGED mergeRest

NextMerge ==
  \/ \E p \in ParticipationInputs : ParticipationGet(p)
  \/ \E root \in ParticipationsInputs : ParticipationsGet(root)

SpecMerge == Init /\ [][NextMerge]_vars

\* A behaviour follows one value through the codec: it starts with one
\* constructing call on a caller's inputs, and every later call works on
\* the file or the path at hand.
Idle == call.op = "none"

NextCodec ==
  \/ /\ Idle
     /\ \E incremental \in BOOLEAN, logic \in Logic, family \in Families,
           name \in SegStrs : Construct(incremental, logic, family, name)
  \/ /\ Idle
     /\ \E incremental \in BOOLEAN, logic \in Logic, family \in FamilyPaths,
           name \in SegStrs : OfTuple(incremental, logic, family, name)
  \/ EncodePath
  \/ /\ Idle
     /\ \E q \in RawPaths : OfPath(q)
  \/ /\ path # None
     /\ OfPath(path[1])

SpecCodec == Init /\ [][NextCodec]_vars

\* Hash(sha256=..., sha512=...)
NewHash(sha256, sha512) ==
  LET r == Hash(sha256, sha512)
  IN /\ built' = r.val
     /\ bcall' = [op |-> "Hash", errs |-> r.errs,
                  args |-> [sha256 |-> sha256, sha512 |-> sha512]]
     /\ UNCHANGED recordRest

\* Archive(url=..., h=...)
NewArchive(url, h) ==
  LET r == Archive(url, h)
  IN /\ built' = r.val
     /\ bcall' = [op |-> "Archive", errs |-> r.errs,
                  args |-> [url |-> url, h |-> h]]
     /\ UNCHANGED recordRest

\* Command validated from its list form.
NewCommand(data) ==
  LET r == Command(data)
  IN /\ built' = r.val
     /\ bcall' = [op |-> "Command", errs |-> r.errs, args |-> data]
     /\ UNCHANGED recordRest

\* Submission(...) on the fields of s.
NewSubmission(s) ==
  LET r == Submission(s.contributors, s.contacts, s.archive, s.command,
                      s.participations)
  IN /\ built' = r.val
     /\ bcall' = [op |-> "Submission", errs |-> r.errs, args |-> s]
     /\ UNCHANGED recordRest

\* Each behaviour validates one record.
NoRecord == bcall.op = "none"

NextRecord ==
  \/ /\ NoRecord
     /\ \E h \in HashInputs : NewHash(h.sha256, h.sha512)
  \/ /\ NoRecord
     /\ \E a \in ArchiveInputs : NewArchive(a.url, a.h)
  \/ /\ NoRecord
     /\ \E data \in CommandInputs : NewCommand(data)
  \/ /\ NoRecord
     /\ \E s \in SubmissionInputs : NewSubmission(s)

SpecRecord == Init /\ [][NextRecord]_vars

\* Logics.logics_from_regexp(data)
FromRegexp(data) ==
  LET r == logics_from_regexp(data)
  IN /\ tcall' = [op |-> "logics_from_regexp", arg |-> data, err |-> r.err,
                  list |-> IF r.err = "none" THEN r.val[1] ELSE <<>>,
                  set |-> {}]
     /\ UNCHANGED taxonomyRest

\* logic_used_for_track(t)
UsedForTrack(t) ==
  LET r == logic_used_for_track(t)
  IN /\ tcall' = [op |-> "logic_used_for_track", arg |-> t, err |-> r.err,
                  list |-> <<>>,
                  set |-> IF r.err = "none" THEN r.val[1] ELSE {}]
     /\ UNCHANGED taxonomyRest

\* Each behaviour makes one lookup.
NoLookup == tcall.op = "none"

NextTaxonomy ==
  \/ /\ NoLookup
     /\ \E data \in Patterns : FromRegexp(data)
  \/ /\ NoLookup
     /\ \E t \in Track : UsedForTrack(t)

SpecTaxonomy == Init /\ [][NextTaxonomy]_vars

\* The accumulators a call can be passed: none, or one of those the caller
\* holds.
Accumulators == {None} \cup {Some(id) : id \in owned}

\* p.get(d) on the heap.  The caller holds the accumulator it passed, and
\* the one the call returned.
HeapParticipationGet(p, d) ==
  LET r == HeapParticipation_get(heap, p, d)
  IN /\ hcalls < MaxHeapCalls
     /\ heap' = r.h
     /\ owned' = IF r.err = "none" THEN owned \cup {r.d} ELSE owned
     /\ hlast' = [op |-> "Participation.get", root |-> <<p>>, d |-> d,
                  err |-> r.err, ret |-> Some(r.d)]
     /\ hcalls' = hcalls + 1
     /\ UNCHANGED heapRest

\* Participations(root).get(d) on the heap.
HeapParticipationsGet(root, d) ==
  LET r == HeapParticipations_get(heap, root, d)
  IN /\ hcalls < MaxHeapCalls
     /\ heap' = r.h
     /\ owned' = IF r.err = "none" THEN owned \cup {r.d} ELSE owned
     /\ hlast' = [op |-> "Participations.get", root |-> root, d |-> d,
                  err |-> r.err, ret |-> Some(r.d)]
     /\ hcalls' = hcalls + 1
     /\ UNCHANGED heapRest

NextHeap ==
  \/ \E p \in ListedParticipations, d \in Accumulators :
       HeapParticipationGet(p, d)
  \/ \E root \in HeapParticipationsInputs, d \in Accumulators :
       HeapParticipationsGet(root, d)

SpecHeap == Init /\ [][NextHeap]_vars

(***************************************************************************)
(* The codec's claims, under SpecCodec.                                    *)
(***************************************************************************)
\* The path at hand was returned by Smt2File.path, and of_path was just
\* called on it.
DecodedEncoded ==
  /\ call.op = "of_path"
  /\ fileFrom # None
  /\ fileFrom[1].encoded # None

\* C1: decoding the path a valid Smt2File f encodes to succeeds and gives
\* back f, on all four fields (whatever the name and the family parts,
\* the empty string and "." included).
C1_DecodeOfEncode ==
  DecodedEncoded => (call.err = "none" /\ file = fileFrom[1].encoded)

\* C2: of_path succeeds on every path p that Smt2File.path returned, and
\* encoding the result gives p again.
C2_EncodeOfDecode ==
  /\ DecodedEncoded => call.err = "none"
  /\ (/\ call.op = "path"
      /\ fileFrom # None
      /\ fileFrom[1].encoded # None) => path = Some(fileFrom[1].path)

\* The parts Smt2File.path is said to give for f.
Layout(f) ==
  <<IF f.incremental THEN Str_incremental ELSE Str_non_incremental,
    EnumStr(f.logic)>> \o f.family \o <<f.name>>

\* C3: the path of a valid Smt2File f has exactly the parts: the flag's
\* segment, the logic's value, the family parts in order, the name; so
\* len(f.family) + 3 of them.
C3_EncodeLayout ==
  call.op = "path" =>
    /\ Parts(path[1]) = Layout(pathFrom[1])
    /\ Len(Parts(path[1])) = Len(pathFrom[1].family) + 3

\* The values of the Logic members.
LogicValues == {LogicValue[l] : l \in Logic}

\* The first part of q is one of the two flags.
FlagOk(q) ==
  /\ Len(Parts(q)) >= 1
  /\ Parts(q)[1] \in {Str_incremental, Str_non_incremental}

\* The second part of q is the value of a Logic member.
LogicOk(q) ==
  /\ Len(Parts(q)) >= 2
  /\ Parts(q)[2] \in LogicValues

\* C4: of_path raises and returns no Smt2File when the first part of the
\* path is not exactly "incremental" or "non-incremental", and when it is
\* but the second part is not the value of a Logic member; when both are
\* right it returns an Smt2File whose incremental flag is True exactly
\* when the first part is "incremental".
C4_DecodeErrors ==
  call.op = "of_path" =>
    LET q == call.args[1]
    IN /\ ~FlagOk(q) => (call.err # "none" /\ file = None)
       /\ (FlagOk(q) /\ ~LogicOk(q)) => (call.err # "none" /\ file = None)
       /\ (FlagOk(q) /\ LogicOk(q)) =>
            /\ call.err = "none"
            /\ file # None
            /\ file[1].incremental = (Parts(q)[1] = Str_incremental)

\* C4's case: a path whose first part is a flag and whose second part is no
\* Logic value was given to of_path, which raised ValueError.
C4_Witness ==
  /\ call.op = "of_path"
  /\ FlagOk(call.args[1])
  /\ ~LogicOk(call.args[1])
  /\ Len(Parts(call.args[1])) >= 2
  /\ call.err = "ValueError"

\* The name or a family part of the arguments of a constructing call holds
\* a "/".
ArgsHaveSlash ==
  \/ /\ call.op = "Smt2File"
     /\ \/ HasSlash(call.args[4])
        \/ \E i \in DOMAIN call.args[3] : HasSlash(call.args[3][i])
  \/ /\ call.op = "of_tuple"
     /\ \/ HasSlash(call.args[4])
        \/ \E i \in DOMAIN Parts(call.args[3]) : HasSlash(Parts(call.args[3])[i])

\* C5: every Smt2File there is, however it was built (the constructor,
\* of_tuple, of_path), has no "/" in its name nor in any family part, and
\* a construction whose name or family part holds a "/" raises a
\* validation error and builds nothing.
C5_NoSeparator ==
  /\ file # None =>
       /\ ~HasSlash(file[1].name)
       /\ \A i \in DOMAIN file[1].family : ~HasSlash(file[1].family[i])
  /\ ArgsHaveSlash => (call.err = "ValidationError" /\ file = None)

\* C5's case: of_tuple was given an absolute family path, whose first part
\* is the root "/", and a plain name, and was refused.
C5_Witness ==
  /\ call.op = "of_tuple"
  /\ ~HasSlash(call.args[4])
  /\ call.args[3].root = <<"/">>
  /\ call.err = "ValidationError"
  /\ file = None

(***************************************************************************)
(* The merger's claims, under SpecMerge.                                   *)
(***************************************************************************)
\* d[t][dv], and the empty set when d has no such entry.
Entry(d, t, dv) ==
  IF t \in DOMAIN d /\ dv \in DOMAIN d[t] THEN d[t][dv] ELSE {}

\* The (track, division, logic) triples of d.
Triples(d) ==
  UNION {UNION {{<<t, dv, l>> : l \in d[t][dv]} : dv \in DOMAIN d[t]} :
           t \in DOMAIN d}

\* The last call was Participation.get on a Participation of nt tracks, nd
\* divisions and nl logics.
LastShape(nt, nd, nl) ==
  /\ last.op = "Participation.get"
  /\ Len(last.root[1].tracks) = nt
  /\ Len(last.root[1].divisions) = nd
  /\ Len(last.root[1].logics) = nl

\* C6: merging a Participation with tracks=[t], divisions=[D], logics=[],
\* D being a division of tracks[t], into an accumulator leaves entry [t][D]
\* equal to what it was (empty if absent) united with tracks[t][D], and
\* leaves every other (track, division) entry with the logics it had.
C6_DivisionOptIn ==
  (/\ LastShape(1, 1, 0)
   /\ last.root[1].divisions[1] \in DOMAIN tracks[last.root[1].tracks[1]]) =>
    LET t == last.root[1].tracks[1]
        D == last.root[1].divisions[1]
    IN /\ last.err = "none"
       /\ t \in DOMAIN acc
       /\ D \in DOMAIN acc[t]
       /\ acc[t][D] = Entry(before, t, D) \cup tracks[t][D]
       /\ \A t2 \in Track, d2 \in Division :
            <<t2, d2>> # <<t, D>> => Entry(acc, t2, d2) = Entry(before, t2, d2)

\* C6's case: the division was merged into an accumulator whose entry held
\* some of its logics already, and not all of them.
C6_Witness ==
  /\ LastShape(1, 1, 0)
  /\ last.err = "none"
  /\ Entry(before, last.root[1].tracks[1], last.root[1].divisions[1]) # {}
  /\ Entry(before, last.root[1].tracks[1], last.root[1].divisions[1])
       # Entry(acc, last.root[1].tracks[1], last.root[1].divisions[1])

\* C7: merging a Participation with tracks=[t], divisions=[], logics=[L]
\* raises nothing and adds the triples (t, d, L) of the divisions d of
\* track t that hold L, and no other triple: no other logic of those
\* divisions, and nothing when no division of t holds L, though one of
\* another track may.
C7_LogicOptIn ==
  LastShape(1, 0, 1) =>
    LET t == last.root[1].tracks[1]
        L == last.root[1].logics[1]
    IN /\ last.err = "none"
       /\ Triples(acc) =
            Triples(before) \cup
              {<<t, d, L>> : d \in {x \in DOMAIN tracks[t] : L \in tracks[t][x]}}

\* C7's case: the logic went into a division that has other logics, which
\* were not added.
C7_Witness ==
  /\ LastShape(1, 0, 1)
  /\ last.err = "none"
  /\ \E d \in DOMAIN tracks[last.root[1].tracks[1]] :
       /\ Entry(before, last.root[1].tracks[1], d) = {}
       /\ Entry(acc, last.root[1].tracks[1], d) = {last.root[1].logics[1]}
       /\ tracks[last.root[1].tracks[1]][d] # {last.root[1].logics[1]}

\* C8: a merge removes no triple of the accumulator; and when ps1 was
\* merged into the empty accumulator without error, merging ps2 into the
\* result leaves what one Participations.get call on ps1 followed by ps2
\* leaves from the empty accumulator, the exception included.  (A set holds
\* a triple once however often it is added.)
C8_Staged ==
  [][/\ Triples(acc) \subseteq Triples(acc')
     /\ (ncalls = 1 /\ last.err = "none") =>
          LET one == Participations_get(last.root \o last'.root, None)
          IN acc' = one.d /\ last'.err = one.err]_vars

\* C8's case: a list of Participations was merged without error into the
\* result of an earlier merge, and added triples to it.
C8_Witness ==
  /\ ncalls = 2
  /\ last.op = "Participations.get"
  /\ last.root # <<>>
  /\ last.err = "none"
  /\ Triples(before) # {}
  /\ Triples(acc) # Triples(before)

\* C9: merging a Participation into the accumulator it was just merged
\* into leaves the accumulator as the first merge left it.
C9_Idempotent ==
  (again /\ last.op = "Participation.get") => acc = before

\* C9's case: a Participation that contributes triples was merged twice in
\* a row.
C9_Witness ==
  /\ again
  /\ last.op = "Participation.get"
  /\ last.err = "none"
  /\ last.root[1].divisions # <<>>
  /\ Triples(acc) # {}

\* C10: Participation.get raises nothing, whatever members of Track,
\* Division and Logic the Participation lists.
C10_Total ==
  last.op = "Participation.get" => last.err = "none"

(***************************************************************************)
(* The validated records' claims, under SpecRecord.                        *)
(***************************************************************************)
\* The fields of the Submission s other than the two rules of check_archive
\* are valid: the lists are not empty and every archive and command that is
\* given is itself valid.
OtherFieldsValid(s) ==
  /\ s.contributors # <<>>
  /\ s.contacts # <<>>
  /\ ArchiveField(s.archive).errs = {}
  /\ CommandField(s.command).errs = {}
  /\ \A i \in DOMAIN s.participations :
       /\ ArchiveField(s.participations[i].archive).errs = {}
       /\ CommandField(s.participations[i].command).errs = {}

\* The root gives no archive and some participation gives none either.
ArchiveMissing(s) ==
  /\ s.archive = None
  /\ \E i \in DOMAIN s.participations : s.participations[i].archive = None

\* The root gives no command and some participation gives none either.
CommandMissing(s) ==
  /\ s.command = None
  /\ \E i \in DOMAIN s.participations : s.participations[i].command = None

\* Every participation of the Submission x has an archive and a command,
\* its own or the root's.
EveryoneServed(x) ==
  \A i \in DOMAIN x.participations :
    /\ x.participations[i].archive # None \/ x.archive # None
    /\ x.participations[i].command # None \/ x.command # None

\* C11 as stated: with the other fields valid, a Submission fails with the
\* archive error when the root has no archive and a participation has none,
\* fails with the command error when the root has no command and a
\* participation has none, and is constructed otherwise; a constructed
\* Submission serves every participation.
C11_BothRules ==
  (bcall.op = "Submission" /\ OtherFieldsValid(bcall.args)) =>
     /\ ArchiveMissing(bcall.args) => bcall.errs = {ArchiveNeeded}
     /\ CommandMissing(bcall.args) => bcall.errs = {CommandNeeded}
     /\ (~ArchiveMissing(bcall.args) /\ ~CommandMissing(bcall.args))
          => (bcall.errs = {} /\ built # None)
     /\ built # None => EveryoneServed(built[1])

\* C11 amended: the archive rule is checked first, so that the command
\* error is what a Submission fails with when the root has no command, a
\* participation has none, and the archive rule is satisfied; the rest is
\* as stated.
C11_ArchiveRuleFirst ==
  (bcall.op = "Submission" /\ OtherFieldsValid(bcall.args)) =>
     /\ ArchiveMissing(bcall.args) => bcall.errs = {ArchiveNeeded}
     /\ (CommandMissing(bcall.args) /\ ~ArchiveMissing(bcall.args))
          => bcall.errs = {CommandNeeded}
     /\ (~ArchiveMissing(bcall.args) /\ ~CommandMissing(bcall.args))
          => (bcall.errs = {} /\ built # None)
     /\ built # None => EveryoneServed(built[1])

\* A Submission of two participations failed with the command error: its
\* root has no command, its first participation has one and its second has
\* none, and the archive rule is satisfied.
C11_Witness ==
  /\ bcall.op = "Submission"
  /\ OtherFieldsValid(bcall.args)
  /\ Len(bcall.args.participations) = 2
  /\ bcall.args.command = None
  /\ bcall.args.participations[1].command # None
  /\ bcall.args.participations[2].command = None
  /\ ~ArchiveMissing(bcall.args)
  /\ bcall.errs = {CommandNeeded}
  /\ built = None

\* C12 as stated: every Archive that is constructed carries at least one of
\* the two hashes, and an Archive record whose hash part sets neither is
\* rejected.
C12_AlwaysHashed ==
  bcall.op = "Archive" =>
     /\ built # None =>
          /\ built[1].h # None
          /\ built[1].h[1].sha256 # None \/ built[1].h[1].sha512 # None
     /\ (bcall.args.h # None
           /\ bcall.args.h[1].sha256 = None /\ bcall.args.h[1].sha512 = None)
          => (built = None /\ bcall.errs # {})

\* C12 amended: every Archive that is constructed with a hash part carries
\* at least one of the two hashes in it, and an Archive record whose hash
\* part sets neither is rejected; an Archive without hash part is
\* constructed when its url is given.
C12_HashPartChecked ==
  bcall.op = "Archive" =>
     /\ (built # None /\ built[1].h # None) =>
          built[1].h[1].sha256 # None \/ built[1].h[1].sha512 # None
     /\ (bcall.args.h # None
           /\ bcall.args.h[1].sha256 = None /\ bcall.args.h[1].sha512 = None)
          => (built = None /\ "h" \in bcall.errs)
     /\ (bcall.args.h = None /\ bcall.args.url # None)
          => (built # None /\ built[1].h = None)

\* An Archive record with a url and a hash part that sets neither digest
\* was rejected because of the hash part alone.
C12_Witness ==
  /\ bcall.op = "Archive"
  /\ bcall.args.url # None
  /\ bcall.args.h = Some([sha256 |-> None, sha512 |-> None])
  /\ bcall.errs = {"h"}
  /\ built = None

(***************************************************************************)
(* The taxonomy's claims, under SpecTaxonomy.                              *)
(***************************************************************************)
\* The members of the list s.
Range(s) == {s[i] : i \in DOMAIN s}

\* The pattern has no "." and no "*": it stands for itself.
Literal(data) == \A i \in DOMAIN data : data[i] \notin {".", "*"}

\* C13: for a pattern that compiles, logics_from_regexp returns, without
\* error, the Logic members whose name the whole pattern matches, in
\* declaration order and each once; a pattern that matches no name gives
\* the empty list.  A pattern that stands for itself selects the logic of
\* that name and no other (QF_BV selects QF_BV and not QF_BVFP), and ".*"
\* selects every logic.
C13_Selector ==
  (tcall.op = "logics_from_regexp" /\ re_compile(tcall.arg).err = "none") =>
     LET items == re_compile(tcall.arg).val[1]
         res == tcall.list
     IN /\ tcall.err = "none"
        /\ Range(res) = {l \in Logic : re_fullmatch(items, EnumStr(l))}
        /\ \A i, j \in DOMAIN res :
             i < j => IndexOf(LogicMembers, res[i]) < IndexOf(LogicMembers, res[j])
        /\ Literal(tcall.arg) =>
             Range(res) = {l \in Logic : EnumStr(l) = tcall.arg}
        /\ tcall.arg = Str_QF_BV => res = <<"QF_BV">>
        /\ tcall.arg = <<".", "*">> => res = LogicMembers

\* The pattern "QF_.*BV" selected several logics, QF_BV among them, and
\* neither QF_BVFP nor BV.
C13_Witness ==
  /\ tcall.op = "logics_from_regexp"
  /\ tcall.arg = <<"Q", "F", "_", ".", "*", "B", "V">>
  /\ tcall.err = "none"
  /\ Len(tcall.list) >= 3
  /\ "QF_BV" \in Range(tcall.list)
  /\ "QF_BVFP" \notin Range(tcall.list)
  /\ "BV" \notin Range(tcall.list)

\* C14: logic_used_for_track(t) is the union of tracks[t][d] over the
\* divisions d of t: a logic is in it exactly when some division of t
\* holds it.
C14_UnionOfDivisions ==
  tcall.op = "logic_used_for_track" =>
     /\ tcall.err = "none"
     /\ tcall.set = UNION {tracks[tcall.arg][d] : d \in DOMAIN tracks[tcall.arg]}
     /\ \A l \in Logic :
          l \in tcall.set <=> \E d \in DOMAIN tracks[tcall.arg] :
                                 l \in tracks[tcall.arg][d]

\* logic_used_for_track(ModelValidation) returned logics of two divisions
\* and not a logic that the track has under no division.
C14_Witness ==
  /\ tcall.op = "logic_used_for_track"
  /\ tcall.arg = "ModelValidation"
  /\ \E d1, d2 \in DOMAIN tracks["ModelValidation"] :
       /\ d1 # d2
       /\ tracks["ModelValidation"][d1] \cap tcall.set # {}
       /\ tracks["ModelValidation"][d2] \cap tcall.set # {}
  /\ tcall.set # Logic

\* The divisions of the track t that hold the logic l.
DivisionsOf(t, l) == {d \in DOMAIN tracks[t] : l \in tracks[t][d]}

\* C17: under every track, a logic is in the set of at most one division.
\* It is stated of the track that was looked up, every track being looked
\* up in some behaviour.
C17_OneDivisionPerLogic ==
  tcall.op = "logic_used_for_track" =>
     \A l \in Logic : Cardinality(DivisionsOf(tcall.arg, l)) <= 1

\* The logics used for Incremental, a track of several divisions, were
\* looked up, and each of them is held by exactly one division.
C17_Witness ==
  /\ tcall.op = "logic_used_for_track"
  /\ tcall.arg = "Incremental"
  /\ Cardinality(DOMAIN tracks["Incremental"]) >= 2
  /\ Cardinality(tcall.set) >= 2
  /\ \A l \in tcall.set : Cardinality(DivisionsOf("Incremental", l)) = 1

(***************************************************************************)
(* The two ways from a tuple to an Smt2File, under SpecCodec.              *)
(***************************************************************************)
\* The path made of the flag segment, the logic name, the family path and
\* the name.
TuplePath(incremental, logic, family, name) ==
  PathOf(<<IF incremental THEN Str_incremental ELSE Str_non_incremental,
           EnumStr(logic), PathStr(family), name>>)

\* C15: when of_tuple(incremental, logic, family, name) returned an
\* Smt2File and of_path of the path made of the same four returns one, the
\* two are equal.
C15_TupleAgreesWithPath ==
  (call.op = "of_tuple" /\ call.err = "none") =>
     LET r == Smt2File_of_path(TuplePath(call.args[1], call.args[2],
                                         call.args[3], call.args[4]))
     IN r.err = "none" => Some(r.val[1]) = file

(***************************************************************************)
(* The merger's further claims, under SpecMerge.                           *)
(***************************************************************************)
\* C16: merging a Participation that lists tracks and neither divisions
\* nor logics raises nothing and leaves the triples of the accumulator as
\* they were.
C16_TracksOnly ==
  (/\ last.op = "Participation.get"
   /\ last.root[1].tracks # <<>>
   /\ last.root[1].divisions = <<>>
   /\ last.root[1].logics = <<>>)
     => (last.err = "none" /\ Triples(acc) = Triples(before))

\* A Participation of one track and nothing else was merged into an
\* accumulator that had triples under another track: the track became a
\* key and no triple came with it.
C16_Witness ==
  /\ LastShape(1, 0, 0)
  /\ last.err = "none"
  /\ Triples(before) # {}
  /\ last.root[1].tracks[1] \notin DOMAIN before
  /\ last.root[1].tracks[1] \in DOMAIN acc
  /\ Triples(acc) = Triples(before)

(***************************************************************************)
(* The merger's frame, under SpecHeap.                                     *)
(***************************************************************************)
\* The merger on objects computes what the merger on values computes: the
\* accumulator the last call worked on holds what Participation.get and
\* Participations.get give for what it held before, with the same error.
HeapAgrees ==
  [][hcalls' = hcalls + 1 =>
       LET d0 == IF hlast'.d = None THEN None
                 ELSE HeapView(heap, hlast'.d[1])
           r == IF hlast'.op = "Participation.get"
                THEN Participation_get(hlast'.root[1], d0)
                ELSE Participations_get(hlast'.root, d0)
       IN /\ HeapView(heap', hlast'.ret[1]) = r.d
          /\ hlast'.err = r.err]_vars

\* C18: whatever calls of Participation.get and Participations.get are
\* made, each on no accumulator or on one an earlier call returned, the
\* table tracks keeps the content it had when loaded, and a call changes
\* no object but those of the accumulator it was passed and those it made.
C18_TableUntouched ==
  [][/\ HeapView(heap', TracksId) = tracks
     /\ \A id \in DOMAIN heap :
          id \notin HeapObjects(heap, hlast'.d)
            => (id \in DOMAIN heap' /\ heap'[id] = heap[id])]_vars

\* A call was passed the accumulator an earlier call returned and left in
\* it a set with the content of the table's set for the same track and
\* division, in an object of its own.
C18_Witness ==
  /\ hcalls = 2
  /\ hlast.d # None
  /\ hlast.err = "none"
  /\ \E t \in DOMAIN heap[hlast.ret[1]].items :
       \E dv \in DOMAIN heap[heap[hlast.ret[1]].items[t]].items :
         /\ HeapView(heap, hlast.ret[1])[t][dv] = tracks[t][dv]
         /\ heap[heap[hlast.ret[1]].items[t]].items[dv] # TrackSetId(t, dv)
         /\ heap[hlast.ret[1]].items[t] # TrackDictId(t)

====
